---- MODULE Spec2Model ----
(***************************************************************************)
(* Valoris: spreadsheet ingestion, vendor aggregation and the analysis     *)
(* request pipeline (src/src/utils/dataExtraction.ts,                      *)
(* src/src/services/openai.ts, src/src/services/externalApiDemo.ts,        *)
(* src/src/components/FileUpload.tsx).                                     *)
(*                                                                         *)
(* The specifications of this module share its variables:                  *)
(*   SpecGroup  groupByVendor applied to bounded row lists                 *)
(*   SpecDemo   processWithNormalAPIs (remote stages, fallback synthesis)  *)
(*   Spec       processExcelFile / analyzeExcelData with the shared        *)
(*              analysis cache and the in-flight request map               *)
(*   SpecCsv    the CSV reader                                             *)
(*   SpecStores the browser stores                                         *)
(*   SpecConv   the conversation manager (conversationData.ts)             *)
(*   SpecApp    the App component's handlers and the chat endpoint         *)
(*   SpecChat   one session of the App with overlapping chat sends         *)
(*   SpecDrop   the drop zone of FileUpload.tsx                            *)
(*   SpecRelay  the webhook relay of server.js                             *)
(*   SpecDecimals  convertEuropeanDecimals applied to bounded cell texts   *)
(***************************************************************************)
EXTENDS Integers, Sequences, FiniteSets, TLC

VARIABLES
    gData,      \* SpecGroup: the ExcelRow[] handed to groupByVendor
    gOut,       \* SpecGroup: the ExtractedData[] it returned
    gDone,      \* SpecGroup: whether groupByVendor has run
    dPipeline,  \* SpecDemo: the pipeline called: n8n (processWithNormalAPIs)
                \*           or openai (performAnalysis)
    dData,      \* SpecDemo: the caller's ExcelRow[] (the array object itself)
    dPc,        \* SpecDemo: where the call stands: start, step1, step2,
                \*           running, done
    dStep1,     \* SpecDemo: step1Result, the parsed body of the stage-1 reply
    dSent,      \* SpecDemo: the stage requests sent so far, in order
    dPath,      \* SpecDemo: none, remote or fallback (how the result was made)
    dSettled,   \* SpecDemo: pending, resolved or rejected
    dOut,       \* SpecDemo: the result the call resolved with
    dError,     \* SpecDemo: the error caught (n8n) or rejected with (openai)
    dReplies,   \* SpecDemo: the replies of the remote endpoints so far, in
                \*           order, each with the stage it answered
    runs,       \* the performAnalysis runs started so far, in order
    apiKey,     \* Spec: whether VITE_OPENAI_API_KEY is set in the build
    calls,      \* Spec: the calls made so far, each with its position
    activeRequests,  \* Spec: the in-flight map, data hash -> run
    analysisCache,   \* Spec: the result cache, in insertion order
    analysisStatus,  \* Spec: FileUpload's status per file name
    errorMessages,   \* Spec: FileUpload's error message per file name
    processingFiles, \* Spec: FileUpload's list of names being processed
    delivered,  \* Spec: the onAnalysisComplete calls made, in order
    cText,      \* SpecCsv: the text of the CSV file
    cDelim,     \* SpecCsv: what detectCsvDelimiter returned, none before
    sLast,      \* SpecStores: the last call on the cache, with its answer
    conversations,  \* ConversationDataManager.conversations, in insertion order
    currentFileId,  \* ConversationDataManager.currentFileId
    kLast,      \* SpecConv: the last call on the manager, with what it returned
    currentState,   \* App: the view shown: login, upload, dashboard or profile
    excelAnalysis,  \* App: the analysis handed to the dashboard, or null
    excelSummary,   \* App: the summary handed to the dashboard, or null
    chatContext,    \* App: the chat context last set
    aLast,      \* SpecApp: the handler that ran last
    aSends,     \* SpecApp: the handleSendMessage calls made, each with its
                \*          position
    uploadedFiles,  \* SpecDrop: the file list of the upload page
    timers,     \* SpecDrop: the file names whose setTimeout callback is due
    latestWebhookData,  \* server.js: the slot of the webhook relay
    wLast,      \* SpecRelay: the last request served, with its answer
    eValue,     \* SpecDecimals: the cell text handed to convertEuropeanDecimals
    eCalls,     \* SpecDecimals: how often the function has been applied
    eResult     \* SpecDecimals: what the last application returned

gvars == <<gData, gOut, gDone>>

dvars == <<dPipeline, dData, dPc, dStep1, dSent, dPath, dSettled, dOut, dError,
          dReplies>>
mvars == <<apiKey, calls, activeRequests, analysisCache, analysisStatus,
          errorMessages, processingFiles, delivered>>

cvars == <<cText, cDelim>>

\* the variables of the specifications that follow Spec
kvars == <<conversations, currentFileId, kLast>>

\* the variables of the specifications that follow SpecStores
avars == <<currentState, excelAnalysis, excelSummary, chatContext, aLast, aSends>>

ovars == <<uploadedFiles, timers>>

wvars == <<latestWebhookData, wLast>>

evars == <<eValue, eCalls, eResult>>

yvars == <<kvars, avars, ovars, wvars, evars>>

xvars == <<cvars, sLast, yvars>>

-----------------------------------------------------------------------------
(* JavaScript values.  A cell of an ExcelRow is a number, a string (a      *)
(* sequence of one-character strings) or undefined; a key that the row     *)
(* does not have is outside DOMAIN row.                                    *)

Num(n) == [t |-> "num", n |-> n, s |-> <<>>]
Str(s) == [t |-> "str", n |-> 0, s |-> s]
Undef == [t |-> "undef", n |-> 0, s |-> <<>>]
\* a cell that holds an array (of records)
Arr(items) == [t |-> "arr", n |-> 0, s |-> items]

\* row[key]: undefined for a key the row lacks
Get(row, key) == IF key \in DOMAIN row THEN row[key] ELSE Undef

\* JavaScript truthiness of a cell: undefined, 0 and "" are falsy
Truthy(c) ==
    CASE c.t = "num" -> c.n # 0
      [] c.t = "str" -> c.s # <<>>
      [] c.t = "arr" -> TRUE
      [] OTHER -> FALSE

Digits == <<"0", "1", "2", "3", "4", "5", "6", "7", "8", "9">>

IsDigit(ch) == \E i \in 1..10 : Digits[i] = ch

DigitVal(ch) == (CHOOSE i \in 1..10 : Digits[i] = ch) - 1

RECURSIVE NatToStr(_)
NatToStr(n) == IF n < 10 THEN <<Digits[n + 1]>>
               ELSE NatToStr(n \div 10) \o <<Digits[(n % 10) + 1]>>

\* String(v)
ToStr(c) ==
    CASE c.t = "num" -> IF c.n < 0 THEN <<"-">> \o NatToStr(-c.n) ELSE NatToStr(c.n)
      [] c.t = "str" -> c.s
      [] OTHER -> <<"u", "n", "d", "e", "f", "i", "n", "e", "d">>

RECURSIVE TrimLeft(_)
TrimLeft(s) == IF s # <<>> /\ Head(s) = " " THEN TrimLeft(Tail(s)) ELSE s

RECURSIVE TrimRight(_)
TrimRight(s) == IF s # <<>> /\ s[Len(s)] = " " THEN TrimRight(SubSeq(s, 1, Len(s) - 1)) ELSE s

\* String.prototype.trim
Trim(s) == TrimRight(TrimLeft(s))

LowerChar(ch) ==
    CASE ch = "A" -> "a"
      [] ch = "B" -> "b"
      [] ch = "C" -> "c"
      [] ch = "D" -> "d"
      [] OTHER -> ch

\* String.prototype.toLowerCase
ToLowerCase(s) == [i \in 1..Len(s) |-> LowerChar(s[i])]

RECURSIVE DigitsValue(_)
DigitsValue(s) == IF s = <<>> THEN 0
                  ELSE 10 * DigitsValue(SubSeq(s, 1, Len(s) - 1)) + DigitVal(s[Len(s)])

AllDigits(s) == \A i \in 1..Len(s) : IsDigit(s[i])

NaN == [nan |-> TRUE, n |-> 0]
Fin(n) == [nan |-> FALSE, n |-> n]

\* Number(v): a numeric string (optionally signed, surrounded by blanks) or
\* a number converts; "" is 0; anything else, and undefined, is NaN
ToNumber(c) ==
    CASE c.t = "num" -> Fin(c.n)
      [] c.t = "str" ->
            LET s == Trim(c.s) IN
            IF s = <<>> THEN Fin(0)
            ELSE IF AllDigits(s) THEN Fin(DigitsValue(s))
            ELSE IF Head(s) \in {"-", "+"} /\ Len(s) > 1 /\ AllDigits(Tail(s))
                 THEN Fin(IF Head(s) = "-" THEN -DigitsValue(Tail(s)) ELSE DigitsValue(Tail(s)))
            ELSE NaN
      [] OTHER -> NaN

\* x || 0 for a number x: NaN and 0 give 0
OrZero(x) == IF x.nan THEN 0 ELSE x.n

RECURSIVE LeadingDigits(_)
LeadingDigits(s) == IF s # <<>> /\ IsDigit(Head(s)) THEN <<Head(s)>> \o LeadingDigits(Tail(s))
                    ELSE <<>>

\* parseFloat on a string of digits, '.' and ',' whose first '.' or ','
\* (if any) has been turned into '.': the integer part is the leading
\* digit run; no leading digit gives NaN.  Cells of the model carry no
\* fractional digits, so the value is an integer.
ParseFloat(s) ==
    LET d == LeadingDigits(s) IN
    IF d = <<>> THEN NaN ELSE Fin(DigitsValue(d))

\* s.replace(/[^\d.,]/g, '')
StripNonNumeric(s) == SelectSeq(s, LAMBDA ch : IsDigit(ch) \/ ch \in {".", ","})

\* s.replace(',', '.'): the first comma only
RECURSIVE ReplaceFirstComma(_)
ReplaceFirstComma(s) ==
    IF s = <<>> THEN <<>>
    ELSE IF Head(s) = "," THEN <<".">> \o Tail(s)
    ELSE <<Head(s)>> \o ReplaceFirstComma(Tail(s))

-----------------------------------------------------------------------------
(* Column names.  Object.keys(row) lists a row's keys in column order;     *)
(* every row of a sheet shares the sheet's column order KeyOrder.          *)

KeyOrder == <<"Supplier", "vendor", "Vendor Name", "spend", "Cost",
              "Total Amount", "category", "segment", "Department">>

\* key.toLowerCase().includes(word), tabulated over the column names above
KeyIncludes(key, word) ==
    <<key, word>> \in {
        <<"Supplier", "supplier">>, <<"vendor", "vendor">>,
        <<"Vendor Name", "vendor">>,
        <<"spend", "spend">>, <<"Cost", "cost">>, <<"Total Amount", "amount">>,
        <<"category", "category">>, <<"segment", "segment">>,
        <<"Department", "department">> }

\* Object.keys(row).filter(key => words.some(w => key.toLowerCase().includes(w)))
MatchingKeys(row, words) ==
    SelectSeq(KeyOrder, LAMBDA k : k \in DOMAIN row /\ \E w \in words : KeyIncludes(k, w))

-----------------------------------------------------------------------------
(* src/src/utils/dataExtraction.ts                                         *)

\* extractVendorName: exact keys first, then the first key whose name
\* contains vendor / supplier / company
extractVendorName(row) ==
    IF Truthy(Get(row, "Supplier")) THEN Trim(ToStr(Get(row, "Supplier")))
    ELSE IF Truthy(Get(row, "supplier")) THEN Trim(ToStr(Get(row, "supplier")))
    ELSE IF Truthy(Get(row, "vendor")) THEN Trim(ToStr(Get(row, "vendor")))
    ELSE IF Truthy(Get(row, "Vendor")) THEN Trim(ToStr(Get(row, "Vendor")))
    ELSE LET keys == MatchingKeys(row, {"vendor", "supplier", "company"}) IN
         IF Len(keys) > 0
         THEN (IF Truthy(row[keys[1]]) THEN Trim(ToStr(row[keys[1]])) ELSE <<>>)
         ELSE <<>>

\* extractSpendAmount: exact keys coerced with Number(..) || 0, then the
\* first key whose name contains spend / cost / amount, stripped and parsed
extractSpendAmount(row) ==
    IF Truthy(Get(row, "Total_Current_Cost")) THEN OrZero(ToNumber(Get(row, "Total_Current_Cost")))
    ELSE IF Truthy(Get(row, "Total Current Cost")) THEN OrZero(ToNumber(Get(row, "Total Current Cost")))
    ELSE IF Truthy(Get(row, "spend")) THEN OrZero(ToNumber(Get(row, "spend")))
    ELSE IF Truthy(Get(row, "Spend")) THEN OrZero(ToNumber(Get(row, "Spend")))
    ELSE IF Truthy(Get(row, "cost")) THEN OrZero(ToNumber(Get(row, "cost")))
    ELSE IF Truthy(Get(row, "Cost")) THEN OrZero(ToNumber(Get(row, "Cost")))
    ELSE LET keys == MatchingKeys(row, {"spend", "cost", "amount"}) IN
         IF Len(keys) > 0
         THEN LET raw == IF Truthy(row[keys[1]]) THEN ToStr(row[keys[1]]) ELSE <<>>
                  value == StripNonNumeric(raw)
              IN  OrZero(ParseFloat(ReplaceFirstComma(value)))
         ELSE 0

\* extractCategory: default 'Software'
extractCategory(row) ==
    IF Truthy(Get(row, "category")) THEN Trim(ToStr(Get(row, "category")))
    ELSE IF Truthy(Get(row, "Category")) THEN Trim(ToStr(Get(row, "Category")))
    ELSE LET keys == MatchingKeys(row, {"category", "type"}) IN
         IF Len(keys) > 0 /\ Truthy(row[keys[1]]) THEN Trim(ToStr(row[keys[1]]))
         ELSE <<"S", "o", "f", "t", "w", "a", "r", "e">>

\* extractSegment: default 'IT'
extractSegment(row) ==
    IF Truthy(Get(row, "segment")) THEN Trim(ToStr(Get(row, "segment")))
    ELSE IF Truthy(Get(row, "Segment")) THEN Trim(ToStr(Get(row, "Segment")))
    ELSE LET keys == MatchingKeys(row, {"segment", "department"}) IN
         IF Len(keys) > 0 /\ Truthy(row[keys[1]]) THEN Trim(ToStr(row[keys[1]]))
         ELSE <<"I", "T">>

normalizeExcelRow(row) ==
    [vendor |-> extractVendorName(row),
     spend |-> extractSpendAmount(row),
     category |-> extractCategory(row),
     segment |-> extractSegment(row)]

\* the drop rule of groupByVendor's loop body:
\* if (!extracted.vendor || extracted.spend === 0) return
Dropped(extracted) == extracted.vendor = <<>> \/ extracted.spend = 0

\* index of the vendorMap entry with this key, 0 when vendorMap.has(key) is false
MapIndex(vendorMap, key) ==
    IF \E i \in 1..Len(vendorMap) : vendorMap[i].key = key
    THEN CHOOSE i \in 1..Len(vendorMap) : vendorMap[i].key = key
    ELSE 0

\* GroupStep keyed by the vendor name as spelled (no toLowerCase)
GroupStepCaseSensitive(vendorMap, row) ==
    LET extracted == normalizeExcelRow(row)
        key == extracted.vendor
        i == MapIndex(vendorMap, key)
    IN  IF Dropped(extracted) THEN vendorMap
        ELSE IF i # 0
             THEN [vendorMap EXCEPT ![i].value.spend = @ + extracted.spend]
             ELSE Append(vendorMap, [key |-> key, value |-> extracted])

\* GroupStep where a later row of a vendor replaces the entry's metadata
GroupStepOverwrite(vendorMap, row) ==
    LET extracted == normalizeExcelRow(row)
        key == ToLowerCase(extracted.vendor)
        i == MapIndex(vendorMap, key)
    IN  IF Dropped(extracted) THEN vendorMap
        ELSE IF i # 0
             THEN [vendorMap EXCEPT ![i].value =
                      [extracted EXCEPT !.vendor = vendorMap[i].value.vendor,
                                        !.spend = vendorMap[i].value.spend + extracted.spend]]
             ELSE Append(vendorMap, [key |-> key, value |-> extracted])

\* one iteration of data.forEach in groupByVendor; vendorMap is the
\* insertion-ordered Map as a sequence of [key, value] entries
GroupStep(vendorMap, row) ==
    LET extracted == normalizeExcelRow(row)
        key == ToLowerCase(extracted.vendor)
        i == MapIndex(vendorMap, key)
    IN  IF Dropped(extracted) THEN vendorMap
        ELSE IF i # 0
             THEN [vendorMap EXCEPT ![i].value.spend = @ + extracted.spend]
             ELSE Append(vendorMap, [key |-> key, value |-> extracted])

RECURSIVE GroupLoop(_, _)
GroupLoop(vendorMap, data) ==
    IF data = <<>> THEN vendorMap
    ELSE GroupLoop(GroupStep(vendorMap, Head(data)), Tail(data))

\* groupByVendor: Array.from(vendorMap.values())
groupByVendor(data) ==
    LET vendorMap == GroupLoop(<<>>, data) IN
    [i \in 1..Len(vendorMap) |-> vendorMap[i].value]

-----------------------------------------------------------------------------
(* SpecGroup: groupByVendor on every list of at most MaxRows rows drawn    *)
(* from RowPool.                                                           *)

MaxRows == 3

Ab == <<"A", "b">>
Cd == <<"C", "d">>

\* rows as a spreadsheet reader produces them: differing spellings of one
\* vendor, blank and missing vendors, zero, negative, textual and
\* unparsable spends, exact and pattern-matched column names
RowPool == {
    [vendor |-> Str(Ab), spend |-> Num(5)],
    [vendor |-> Str(<<"a", "B">>), spend |-> Num(10), category |-> Str(<<"H">>), segment |-> Str(<<"O">>)],
    [Supplier |-> Str(<<" ", "A", "B">>), Cost |-> Str(<<"5">>), Department |-> Str(<<"F">>)],
    [vendor |-> Str(Cd), spend |-> Num(10), category |-> Str(<<"K">>)],
    [vendor |-> Str(Cd), spend |-> Num(-5), segment |-> Str(<<"F">>)],
    [vendor |-> Str(<<>>), spend |-> Num(5), category |-> Str(<<"H">>)],
    [vendor |-> Str(<<" ">>), spend |-> Num(5)],
    [vendor |-> Str(Ab), spend |-> Num(0), category |-> Str(<<"H">>)],
    ("Vendor Name" :> Str(<<"A", "B">>)) @@ ("Total Amount" :> Str(<<"x", "5">>)),
    [vendor |-> Str(<<"a", "b">>), spend |-> Str(<<"x">>)],
    [vendor |-> Num(5), spend |-> Str(<<"-", "5">>)],
    [spend |-> Num(5), category |-> Str(<<"K">>)],
    ("Vendor Name" :> Str(Cd)) @@ ("Cost" :> Undef) @@ ("Total Amount" :> Num(10)) }

RowLists == UNION { [1..n -> RowPool] : n \in 0..MaxRows }

\* the state of processWithNormalAPIs before any call
DemoIdle ==
    /\ dPipeline = "none"
    /\ dData = <<>>
    /\ dPc = "idle"
    /\ dStep1 = [kind |-> "null", arr |-> <<>>, f |-> <<>>, n |-> 0]
    /\ dSent = <<>>
    /\ dPath = "none"
    /\ dSettled = "pending"
    /\ dOut = [analysis |-> <<>>, summary |-> [kind |-> "none"]]
    /\ dError = [type |-> "none", status |-> 0]
    /\ dReplies = <<>>

GroupIdle ==
    /\ gData = <<>>
    /\ gOut = <<>>
    /\ gDone = FALSE

MainIdle ==
    /\ apiKey = FALSE
    /\ calls = <<>>
    /\ activeRequests = {}
    /\ analysisCache = <<>>
    /\ analysisStatus = <<>>
    /\ errorMessages = <<>>
    /\ processingFiles = <<>>
    /\ delivered = <<>>

CsvIdle ==
    /\ cText = <<>>
    /\ cDelim = "none"

\* the specifications that follow Spec are idle
StoresIdle == sLast = <<>>

\* line 248 of conversationData.ts: the singleton, just constructed
NoFileId == "null"

ConvIdle ==
    /\ conversations = <<>>
    /\ currentFileId = NoFileId
    /\ kLast = <<>>

\* lines 66-73 and 116-123 of App.tsx: the chat context of an App that has
\* no file
EmptyContext ==
    [currentFile |-> <<>>,
     availableFiles |-> <<>>,
     totalVendors |-> 0,
     totalSpend |-> 0,
     totalSavings |-> 0,
     topCategories |-> <<>>,
     topVendors |-> <<>>]

\* lines 60-73 of App.tsx: the state of the App when it is mounted
AppIdle ==
    /\ currentState = "login"
    /\ excelAnalysis = "null"
    /\ excelSummary = "null"
    /\ chatContext = EmptyContext
    /\ aLast = "none"
    /\ aSends = <<>>

DropIdle ==
    /\ uploadedFiles = <<>>
    /\ timers = <<>>

\* line 19 of server.js: let latestWebhookData = null.  The slot is the
\* empty sequence when it is null, a sequence of the one object otherwise
RelayIdle ==
    /\ latestWebhookData = <<>>
    /\ wLast = <<>>

\* no cell text has been handed to convertEuropeanDecimals
DecimalsIdle ==
    /\ eValue = <<>>
    /\ eCalls = 0
    /\ eResult = <<>>

LaterIdle == ConvIdle /\ AppIdle /\ DropIdle /\ RelayIdle /\ DecimalsIdle

ExtIdle == CsvIdle /\ StoresIdle /\ LaterIdle

InitGroup ==
    /\ gData \in RowLists
    /\ gOut = <<>>
    /\ gDone = FALSE
    /\ DemoIdle
    /\ MainIdle
    /\ ExtIdle
    /\ runs = <<>>

\* const cleanedData = groupByVendor(excelData)
GroupByVendor ==
    /\ ~gDone
    /\ gOut' = groupByVendor(gData)
    /\ gDone' = TRUE
    /\ UNCHANGED gData
    /\ UNCHANGED <<dvars, runs, mvars, xvars>>

NextGroup == GroupByVendor

vars == <<gvars, dvars, runs, mvars, xvars>>

SpecGroup == InitGroup /\ [][NextGroup]_vars

-----------------------------------------------------------------------------
(* Claims about groupByVendor (SpecGroup)                                  *)

\* the rows of gData that the drop rule lets through
Kept == { k \in 1..Len(gData) : ~Dropped(normalizeExcelRow(gData[k])) }

\* the kept rows whose vendor equals v up to letter case
KeptFor(v) ==
    { k \in Kept : ToLowerCase(extractVendorName(gData[k])) = ToLowerCase(v) }

MinOf(S) == CHOOSE k \in S : \A m \in S : k <= m

RECURSIVE SpendOver(_)
SpendOver(S) ==
    IF S = {} THEN 0
    ELSE LET k == MinOf(S) IN extractSpendAmount(gData[k]) + SpendOver(S \ {k})

\* C8: groupByVendor emits at most one entry per vendor name compared
\* case-insensitively; the entry keeps the spelling of the first row that
\* contributes to it, and its spend is the sum of the extracted spends of
\* all kept rows whose vendor matches it case-insensitively.
C8_OneEntryPerVendor ==
    gDone =>
        /\ \A i, j \in 1..Len(gOut) :
              ToLowerCase(gOut[i].vendor) = ToLowerCase(gOut[j].vendor) => i = j
        /\ \A i \in 1..Len(gOut) :
              /\ KeptFor(gOut[i].vendor) # {}
              /\ gOut[i].vendor = extractVendorName(gData[MinOf(KeptFor(gOut[i].vendor))])
              /\ gOut[i].spend = SpendOver(KeptFor(gOut[i].vendor))
        /\ \A k \in Kept : \E i \in 1..Len(gOut) : k \in KeptFor(gOut[i].vendor)

\* two kept rows spell one vendor differently and are merged into one entry
C8_Witness ==
    /\ gDone
    /\ \E i \in 1..Len(gOut) :
          /\ gOut[i].spend = 15
          /\ \E k, m \in KeptFor(gOut[i].vendor) :
                extractVendorName(gData[k]) # extractVendorName(gData[m])

\* C9: groupByVendor lists vendors in the order of their first kept
\* occurrence in the input, and each entry's category and segment are
\* those of that first occurrence, whatever later rows of the vendor hold.
C9_FirstSeenOrderAndMetadata ==
    gDone =>
        /\ \A i, j \in 1..Len(gOut) :
              i < j => MinOf(KeptFor(gOut[i].vendor)) < MinOf(KeptFor(gOut[j].vendor))
        /\ \A i \in 1..Len(gOut) :
              LET first == gData[MinOf(KeptFor(gOut[i].vendor))] IN
              /\ gOut[i].category = extractCategory(first)
              /\ gOut[i].segment = extractSegment(first)

\* two vendors are listed, and a later row of the first one carries another
\* category than the row that created the entry
C9_Witness ==
    /\ gDone
    /\ Len(gOut) >= 2
    /\ \E k, m \in KeptFor(gOut[1].vendor) :
          /\ k < m
          /\ m > MinOf(KeptFor(gOut[2].vendor))
          /\ extractCategory(gData[k]) # extractCategory(gData[m])
          /\ extractSegment(gData[k]) # extractSegment(gData[m])

\* C10: every record emitted by groupByVendor has a non-empty vendor and
\* spend > 0, and a row whose extracted vendor is empty or whose extracted
\* spend is 0 contributes nothing to the output.
C10_EmittedVendorAndPositiveSpend ==
    gDone =>
        /\ \A i \in 1..Len(gOut) : gOut[i].vendor # <<>> /\ gOut[i].spend > 0
        /\ gOut = groupByVendor(SelectSeq(gData, LAMBDA row :
                      extractVendorName(row) # <<>> /\ extractSpendAmount(row) # 0))

-----------------------------------------------------------------------------
(* src/src/services/externalApiDemo.ts                                     *)
(*                                                                         *)
(* Amounts (pastSpend, projectedSpend, summary totals) are JavaScript      *)
(* numbers held in hundredths: Fin(h) stands for h / 100, NaN for NaN.     *)

\* parsed JSON values: null, an array of items, or an object whose fields
\* are JSON values; an item is a map from keys to cells, like an ExcelRow
JNull == [kind |-> "null", arr |-> <<>>, f |-> <<>>, n |-> 0]
JArray(items) == [kind |-> "array", arr |-> items, f |-> <<>>, n |-> 0]
JObject(fields) == [kind |-> "object", arr |-> <<>>, f |-> fields, n |-> 0]
JText == [kind |-> "string", arr |-> <<>>, f |-> <<>>, n |-> 0]
JNum(n) == [kind |-> "number", arr |-> <<>>, f |-> <<>>, n |-> n]

\* step2Data && step2Data.<key> && Array.isArray(step2Data.<key>)
HasArrayAt(step2Data, key) ==
    /\ step2Data.kind = "object"
    /\ key \in DOMAIN step2Data.f
    /\ step2Data.f[key].kind = "array"

\* a JavaScript integer as an amount
Amount(x) == IF x.nan THEN NaN ELSE Fin(100 * x.n)

AddAmount(a, b) == IF a.nan \/ b.nan THEN NaN ELSE Fin(a.n + b.n)

Abs(n) == IF n < 0 THEN -n ELSE n

\* Math.round(num / den): the nearest integer, halves upwards
RoundDiv(num, den) == (2 * num + den) \div (2 * den)

\* the first truthy cell among keys, else the number 0:  a || b || c || 0
FirstTruthy(item, keys) ==
    LET hits == SelectSeq(keys, LAMBDA k : Truthy(Get(item, k))) IN
    IF Len(hits) > 0 THEN item[hits[1]] ELSE Num(0)

\* `Vendor ${index + 1}` for the zero-based JavaScript index
VendorN(index) == <<"V", "e", "n", "d", "o", "r", " ">> \o NatToStr(index)

\* `vendor-${index + 1}`
VendorId(index) == <<"v", "e", "n", "d", "o", "r", "-">> \o NatToStr(index)

\* hundredths of a fraction's digits: the first two, padded with zeros
Hundredths(frac) ==
    IF frac = <<>> THEN 0
    ELSE IF Len(frac) = 1 THEN 10 * DigitVal(frac[1])
    ELSE 10 * DigitVal(frac[1]) + DigitVal(frac[2])

\* parseFloat(s) as an amount: the longest leading decimal literal (digits,
\* then optionally a point and digits), NaN when there is none; the model
\* keeps two decimals
parseFloatAmount(s) ==
    LET whole == LeadingDigits(s)
        rest == SubSeq(s, Len(whole) + 1, Len(s))
        frac == IF rest # <<>> /\ Head(rest) = "." THEN LeadingDigits(Tail(rest)) ELSE <<>>
    IN  IF whole = <<>> /\ frac = <<>> THEN NaN
        ELSE Fin(100 * DigitsValue(whole) + Hundredths(frac))

\* lines 180-184: the price of one alternative, a string like "108.50 €":
\* alt.price || alt.estimatedPrice || '0' without the characters of
\* /[€,$\s]/g, parsed; NaN counts as 0
AlternativePrice(alt) ==
    LET priceStr == IF Truthy(Get(alt, "price")) THEN alt["price"].s
                    ELSE IF Truthy(Get(alt, "estimatedPrice")) THEN alt["estimatedPrice"].s
                    ELSE <<"0">>
        price == parseFloatAmount(SelectSeq(priceStr, LAMBDA ch : ch \notin {"€", ",", "$", " "}))
    IN  IF price.nan THEN 0 ELSE price.n

\* Math.min(...prices) of a non-empty list
MathMin(prices) ==
    CHOOSE p \in { prices[i] : i \in 1..Len(prices) } :
        \A i \in 1..Len(prices) : p <= prices[i]

\* Math.round(pastSpend * percent / 100) as an amount
RoundedShare(pastSpend, percent) ==
    IF pastSpend.nan THEN NaN ELSE Fin(100 * RoundDiv(percent * pastSpend.n, 10000))

\* mapToSpendAnalysis, lines 172-199: minSavings and maxSavings, the two
\* numbers of savingsRange.  8% and 15% of pastSpend, rounded; with an
\* alternative of a positive price below pastSpend, pastSpend minus the
\* cheapest such price and 20% of pastSpend, rounded
SavingsBounds(item, pastSpend) ==
    LET alternatives == Get(item, "alternatives")
        alternativePrices ==
            IF alternatives.t = "arr"
            THEN SelectSeq([i \in 1..Len(alternatives.s) |-> AlternativePrice(alternatives.s[i])],
                           LAMBDA price : price > 0)
            ELSE <<>>
    IN  IF alternativePrices # <<>> /\ ~pastSpend.nan /\ MathMin(alternativePrices) < pastSpend.n
        THEN [min |-> Fin(pastSpend.n - MathMin(alternativePrices)),
              max |-> RoundedShare(pastSpend, 20)]
        ELSE [min |-> RoundedShare(pastSpend, 8), max |-> RoundedShare(pastSpend, 15)]

\* mapToSpendAnalysis, lines 163-237: one SpendAnalysis per payload item
\* (index counts from 1); projectedSpend is pastSpend * 1.05 rounded to
\* two decimals; savingsRange is the text of its two bounds
MapItem(item, index) ==
    LET nameCell == FirstTruthy(item, <<"itemName", "vendor", "vendorName", "name", "supplier">>)
        pastSpend == Amount(ToNumber(FirstTruthy(item, <<"spend", "price", "pastSpend", "amount">>)))
    IN  [id |-> IF Truthy(Get(item, "uniqueId")) THEN ToStr(item["uniqueId"]) ELSE VendorId(index),
         vendor |-> IF Truthy(nameCell) THEN ToStr(nameCell) ELSE VendorN(index),
         pastSpend |-> pastSpend,
         savingsRange |-> SavingsBounds(item, pastSpend),
         projectedSpend |-> IF pastSpend.nan THEN NaN
                            ELSE Fin(RoundDiv(105 * pastSpend.n, 100))]

\* a search that passes over the locations holding an empty array
PayloadArrayFirstNonEmpty(step2Data) ==
    IF HasArrayAt(step2Data, "items") /\ step2Data.f["items"].arr # <<>>
    THEN step2Data.f["items"].arr
    ELSE IF HasArrayAt(step2Data, "analysis") /\ step2Data.f["analysis"].arr # <<>>
    THEN step2Data.f["analysis"].arr
    ELSE IF step2Data.kind = "array" THEN step2Data.arr
    ELSE IF HasArrayAt(step2Data, "data") /\ step2Data.f["data"].arr # <<>>
    THEN step2Data.f["data"].arr
    ELSE IF HasArrayAt(step2Data, "vendors") /\ step2Data.f["vendors"].arr # <<>>
    THEN step2Data.f["vendors"].arr
    ELSE IF HasArrayAt(step2Data, "result") /\ step2Data.f["result"].arr # <<>>
    THEN step2Data.f["result"].arr
    ELSE <<>>

\* mapToSpendAnalysis, lines 134-159: where the payload array is looked for
PayloadArray(step2Data) ==
    IF HasArrayAt(step2Data, "items") THEN step2Data.f["items"].arr
    ELSE IF HasArrayAt(step2Data, "analysis") THEN step2Data.f["analysis"].arr
    ELSE IF step2Data.kind = "array" THEN step2Data.arr
    ELSE IF HasArrayAt(step2Data, "data") THEN step2Data.f["data"].arr
    ELSE IF HasArrayAt(step2Data, "vendors") THEN step2Data.f["vendors"].arr
    ELSE IF HasArrayAt(step2Data, "result") THEN step2Data.f["result"].arr
    ELSE <<>>

mapToSpendAnalysis(step1Data, step2Data) ==
    LET analysisData == PayloadArray(step2Data) IN
    [i \in 1..Len(analysisData) |-> MapItem(analysisData[i], i)]

RECURSIVE SumField(_, _)
\* analysis.reduce((sum, item) => sum + item.<field>, 0)
SumField(analysis, field) ==
    IF analysis = <<>> THEN Fin(0)
    ELSE AddAmount(SumField(SubSeq(analysis, 1, Len(analysis) - 1), field),
                   analysis[Len(analysis)][field])

\* generateSummaryMetrics with the projected total taken from pastSpend
generateSummaryMetricsPastTwice(analysis) ==
    LET totalPastSpend == SumField(analysis, "pastSpend") IN
    [kind |-> "local",
     pastSpend |-> totalPastSpend,
     projectedSpend |-> totalPastSpend,
     potentialSavings |-> [min |-> 8, max |-> 18],
     roi |-> IF totalPastSpend.nan \/ totalPastSpend.n = 0 THEN NaN
             ELSE Fin(RoundDiv(8 + 18, 2))]

\* generateSummaryMetrics; potentialSavings is held as the percentage
\* points of pastSpend (min 8, max 18), roi is NaN when the total is 0 or NaN
generateSummaryMetrics(analysis) ==
    LET totalPastSpend == SumField(analysis, "pastSpend")
        totalProjectedSpend == SumField(analysis, "projectedSpend")
    IN  [kind |-> "local",
         pastSpend |-> totalPastSpend,
         projectedSpend |-> totalProjectedSpend,
         potentialSavings |-> [min |-> 8, max |-> 18],
         roi |-> IF totalPastSpend.nan \/ totalPastSpend.n = 0 THEN NaN
                 ELSE Fin(RoundDiv(8 + 18, 2))]

\* generateMockData, lines 268-323, for the row at index (from 1); random
\* is the value of 50000 + Math.random() * 400000 drawn for this row
MockItem(row, index, random) ==
    LET isPreprocessed == Truthy(Get(row, "vendor")) /\ Get(row, "spend").t # "undef"
        extractedName == extractVendorName(row)
        extractedSpend == extractSpendAmount(row)
        vendorName == IF isPreprocessed THEN ToStr(row["vendor"])
                      ELSE IF extractedName # <<>> THEN extractedName ELSE VendorN(index)
        baseSpend == IF isPreprocessed
                     THEN Amount(ToNumber(IF Truthy(row["spend"]) THEN row["spend"] ELSE Num(0)))
                     ELSE Amount(Fin(IF extractedSpend # 0 THEN extractedSpend ELSE random))
        savingsCell == Get(row, "potentialSavings")
        actualSavings == IF isPreprocessed
                         THEN Amount(ToNumber(IF Truthy(savingsCell) THEN savingsCell ELSE Num(0)))
                         ELSE Fin(0)
        projectedCell == Get(row, "projectedSpend")
        projectedSpend ==
            IF isPreprocessed /\ Truthy(projectedCell) THEN Amount(ToNumber(projectedCell))
            ELSE IF baseSpend.nan THEN NaN
            ELSE IF ~actualSavings.nan /\ actualSavings.n # 0
                 THEN Fin(baseSpend.n - Abs(actualSavings.n))
            ELSE Fin(RoundDiv(100 * baseSpend.n - Abs(15 * baseSpend.n), 100))
    IN  [id |-> VendorId(index),
         vendor |-> vendorName,
         pastSpend |-> baseSpend,
         projectedSpend |-> projectedSpend]

\* generateMockData that skips the rows it finds no vendor name in
generateMockDataNamedOnly(excelData, randoms) ==
    LET named == SelectSeq(excelData, LAMBDA row : extractVendorName(row) # <<>>)
        mockAnalysis == [i \in 1..Len(named) |-> MockItem(named[i], i, randoms[i])]
    IN  [analysis |-> mockAnalysis, summary |-> generateSummaryMetrics(mockAnalysis)]

\* generateMockData: one item per input row, summary generated from them
generateMockData(excelData, randoms) ==
    LET mockAnalysis == [i \in 1..Len(excelData) |-> MockItem(excelData[i], i, randoms[i])] IN
    [analysis |-> mockAnalysis, summary |-> generateSummaryMetrics(mockAnalysis)]

-----------------------------------------------------------------------------
(* Replies of the remote endpoints.  net = FALSE: the fetch rejects        *)
(* (transport failure); otherwise an HTTP response with response.ok, its   *)
(* status, and a body that response.json() parses (parsable) or not.       *)

Reply(net, ok, status, parsable, body) ==
    [net |-> net, ok |-> ok, status |-> status, parsable |-> parsable, body |-> body]

TransportFailure == Reply(FALSE, FALSE, 0, FALSE, JNull)
HttpError == Reply(TRUE, FALSE, 500, TRUE, JObject([message |-> JText]))
Unparsable == Reply(TRUE, TRUE, 200, FALSE, JNull)
Ok200(body) == Reply(TRUE, TRUE, 200, TRUE, body)

\* errors: ValoriesError types of src/src/utils/errorHandling.ts, and the
\* built-in Error, TypeError (fetch failure, property of null) and
\* SyntaxError (response.json() on a body that is no JSON)
\* a reply as it is received: the request it answers, and the reply
Received(request, reply) == [request |-> request, reply |-> reply]

Err(type, status) == [type |-> type, status |-> status]
NoError == Err("none", 0)

-----------------------------------------------------------------------------
(* src/src/services/openai.ts: performAnalysis                             *)

JUndefined == [kind |-> "undefined", arr |-> <<>>, f |-> <<>>, n |-> 0]

\* parseFloat of a string made of digits and '-' (after
\* replace(/[^\d.-]/g, '')): an optional sign, then the leading digit run
ParseFloatSigned(s) ==
    IF s # <<>> /\ Head(s) = "-"
    THEN (LET d == LeadingDigits(Tail(s)) IN IF d = <<>> THEN NaN ELSE Fin(-DigitsValue(d)))
    ELSE ParseFloat(s)

\* convertToMarkdownTable's sort key, lines 539-540
MarkdownSpend(row) ==
    LET cell == FirstTruthy(row, <<"Annual Spend", "Spend", "Amount", "Cost">>)
        text == SelectSeq(ToStr(cell), LAMBDA ch : IsDigit(ch) \/ ch \in {".", "-"})
    IN  OrZero(ParseFloatSigned(text))

\* insert row behind every row whose key is not smaller (stable, descending)
RECURSIVE InsertDescending(_, _)
InsertDescending(sorted, row) ==
    IF sorted = <<>> THEN <<row>>
    ELSE IF MarkdownSpend(Head(sorted)) >= MarkdownSpend(row)
         THEN <<Head(sorted)>> \o InsertDescending(Tail(sorted), row)
         ELSE <<row>> \o sorted

RECURSIVE SortDescending(_)
\* rawData.sort((a, b) => spendB - spendA): Array.prototype.sort is stable
SortDescending(rawData) ==
    IF rawData = <<>> THEN <<>>
    ELSE InsertDescending(SortDescending(SubSeq(rawData, 1, Len(rawData) - 1)),
                          rawData[Len(rawData)])

MarkdownRowCap == 12
SampleRowCap == 100

FirstN(seq, n) == SubSeq(seq, 1, IF Len(seq) < n THEN Len(seq) ELSE n)

\* convertToMarkdownTable: the table holds the top rows of the sorted data;
\* the sort is in place, so the caller's array is left sorted
convertToMarkdownTable(rawData) ==
    IF rawData = <<>> THEN [kind |-> "markdown", rows |-> <<>>, totalRows |-> 0]
    ELSE [kind |-> "markdown",
          rows |-> FirstN(SortDescending(rawData), MarkdownRowCap),
          totalRows |-> Len(rawData)]

CountWhere(seq, P(_)) == Len(SelectSeq(seq, P))

\* sampleData.reduce((sum, row) => sum + (row.spend || 0), 0)
RECURSIVE SpendSum(_)
SpendSum(sampleData) ==
    IF sampleData = <<>> THEN 0
    ELSE SpendSum(SubSeq(sampleData, 1, Len(sampleData) - 1))
         + sampleData[Len(sampleData)].spend

\* sum / count, kept as the exact quotient of the two
Mean(sum, count) == [sum |-> sum, over |-> count]

\* performAnalysis: the payload of normalized rows, the first SampleRowCap
\* of them with totalRows and dataQuality
NormalizedPayload(cleanedData) ==
    LET sampleData == FirstN(cleanedData, SampleRowCap) IN
    [kind |-> "normalized",
     rows |-> sampleData,
     totalRows |-> Len(cleanedData),
     dataQuality |->
         [totalVendors |-> CountWhere(sampleData, LAMBDA row : row.vendor # <<>>),
          withSpendData |-> CountWhere(sampleData, LAMBDA row : row.spend > 0),
          avgSpend |-> Mean(SpendSum(sampleData), Len(sampleData))]]

\* the payload when the table is used only for sheets without any row of
\* positive spend
PromptDataTableWhenNoSpend(excelData) ==
    LET cleanedData == groupByVendor(excelData)
        shouldUseMarkdown ==
            \/ Len(cleanedData) = 0
            \/ CountWhere(cleanedData, LAMBDA row : row.spend > 0) < 1
    IN  IF shouldUseMarkdown THEN convertToMarkdownTable(excelData)
        ELSE NormalizedPayload(cleanedData)

\* lines 75-102: the payload sent to stage 1
PromptData(excelData) ==
    LET cleanedData == groupByVendor(excelData)
        shouldUseMarkdown ==
            \/ Len(cleanedData) = 0
            \/ CountWhere(cleanedData, LAMBDA row : row.spend > 0) < 2
    IN  IF shouldUseMarkdown THEN convertToMarkdownTable(excelData)
        ELSE NormalizedPayload(cleanedData)

\* excelData after lines 75-84: sorted in place when the table is built
DataAfterPrompt(excelData) ==
    IF PromptData(excelData).kind = "markdown" THEN SortDescending(excelData)
    ELSE excelData

NoResult == [analysis |-> <<>>, summary |-> [kind |-> "none"]]
NoPrompt == [kind |-> "none", rows |-> <<>>, totalRows |-> 0]

\* a number cell as an amount; anything else does not add up to a number
CellAmount(c) == IF c.t = "num" THEN Fin(100 * c.n) ELSE NaN

JsonAmount(j) == IF j.kind = "number" THEN Fin(100 * j.n) ELSE NaN

JField(j, key) == IF j.kind = "object" /\ key \in DOMAIN j.f THEN j.f[key] ELSE JUndefined

\* lines 169-172: the item as received, with an id when it has none
WithId(item, index) ==
    [id |-> IF Truthy(Get(item, "id")) THEN ToStr(item["id"]) ELSE VendorId(index),
     vendor |-> ToStr(Get(item, "vendor")),
     pastSpend |-> CellAmount(Get(item, "pastSpend")),
     projectedSpend |-> CellAmount(Get(item, "projectedSpend"))]

\* the summary object as received from stage 2
RemoteSummary(j) ==
    [kind |-> "remote",
     pastSpend |-> JsonAmount(JField(j, "pastSpend")),
     projectedSpend |-> JsonAmount(JField(j, "projectedSpend"))]

\* performAnalysis up to its first await: testOpenAIConnection's fetch is out
NewRun(excelData) ==
    [pc |-> "conn", data |-> excelData, prompt |-> NoPrompt,
     stage1Content |-> JUndefined, sent |-> <<"models">>,
     outcome |-> "pending", result |-> NoResult, error |-> NoError]

Rejected(run, error) ==
    [run EXCEPT !.pc = "done", !.outcome = "rejected", !.error = error]

\* lines 67-123: the connectivity test returns; on success the prompt is
\* prepared and the stage-1 request is sent
RunOnConn(run, reply) ==
    IF ~(reply.net /\ reply.ok)
    THEN Rejected(run, Err("NETWORK_ERROR", 0))
    ELSE [run EXCEPT !.pc = "stage1",
                     !.prompt = PromptData(run.data),
                     !.data = DataAfterPrompt(run.data),
                     !.sent = Append(@, "stage1")]

\* lines 116-142: the stage-1 reply; response.ok is not looked at
RunOnStage1(run, reply) ==
    IF ~reply.net THEN Rejected(run, Err("TypeError", 0))
    ELSE IF ~reply.parsable THEN Rejected(run, Err("SyntaxError", 0))
    ELSE IF reply.body.kind = "null" THEN Rejected(run, Err("TypeError", 0))
    ELSE [run EXCEPT !.pc = "stage2",
                     !.stage1Content = JField(reply.body, "normalizedData"),
                     !.sent = Append(@, "stage2")]

\* lines 144-178: the stage-2 reply
RunOnStage2(run, reply) ==
    IF ~reply.net THEN Rejected(run, Err("TypeError", 0))
    ELSE IF ~reply.ok THEN Rejected(run, Err("Error", 0))
    ELSE IF ~reply.parsable THEN Rejected(run, Err("SyntaxError", 0))
    ELSE IF reply.body.kind = "null" THEN Rejected(run, Err("TypeError", 0))
    ELSE IF JField(reply.body, "analysis").kind # "array" THEN Rejected(run, Err("Error", 0))
    ELSE IF JField(reply.body, "summary").kind \notin {"object", "array"}
         THEN Rejected(run, Err("Error", 0))
    ELSE LET items == reply.body.f["analysis"].arr IN
         [run EXCEPT !.pc = "done",
                     !.outcome = "resolved",
                     !.result = [analysis |-> [i \in 1..Len(items) |-> WithId(items[i], i)],
                                 summary |-> RemoteSummary(reply.body.f["summary"])]]

-----------------------------------------------------------------------------
(* SpecDemo: one analysis call on a bounded row list, through either       *)
(* pipeline, against every reply of the remote endpoints.                  *)

DemoPool == {
    [vendor |-> Str(Ab), spend |-> Num(5)],
    [vendor |-> Str(<<"a", "B">>), spend |-> Num(10), category |-> Str(<<"H">>)],
    [vendor |-> Str(Cd), spend |-> Num(0)],
    [vendor |-> Str(Cd), spend |-> Num(10)],
    [vendor |-> Str(Cd), spend |-> Str(<<"x">>)],
    ("Vendor Name" :> Str(Ab)) @@ ("Cost" :> Num(5)),
    [category |-> Str(<<"K">>)] }

\* a sheet without a vendor column and with more rows than the table shows
ManyCosts == [i \in 1..(MarkdownRowCap + 1) |-> [Cost |-> Num(i)]]

\* the sheets that reach the row cap of the table
LongSheets == { ManyCosts }

DemoLists == UNION { [1..n -> DemoPool] : n \in 0..MaxRows }

\* values of 50000 + Math.random() * 400000
RandomBases == {50000, 123457}

RemoteItem1 == [vendor |-> Str(Ab), pastSpend |-> Num(100), projectedSpend |-> Num(105)]
RemoteItem2 == [itemName |-> Str(Cd), price |-> Num(7)]
RemoteItem3 == [name |-> Str(Ab), amount |-> Str(<<"x">>), id |-> Str(<<"7">>)]

\* items with alternatives: one far cheaper than the item, one a little
\* cheaper, one dearer, one without a price
RemoteItem4 == [vendor |-> Str(Ab), spend |-> Num(100),
                alternatives |-> Arr(<< [vendor |-> Str(Cd), price |-> Str(<<"1", "0", " ", "€">>)] >>)]
RemoteItem5 == [vendor |-> Str(Cd), spend |-> Num(100),
                alternatives |-> Arr(<< [vendor |-> Str(Ab), price |-> Str(<<"1", "2", "0", " ", "€">>)],
                                        [vendor |-> Str(Ab), estimatedPrice |-> Str(<<"9", "0", ".", "5", "0", " ", "€">>)] >>)]
RemoteItem6 == [vendor |-> Str(Ab), spend |-> Num(100),
                alternatives |-> Arr(<< [vendor |-> Str(Cd), price |-> Str(<<"1", ",", "2", "0", "0", "$">>)],
                                        [vendor |-> Str(Cd)] >>)]

Payload1 == JArray(<<RemoteItem1>>)
Payload2 == JArray(<<RemoteItem2, RemoteItem3>>)
Payload3 == JArray(<<RemoteItem5, RemoteItem4, RemoteItem6>>)

\* bodies of the stage-2 reply: the payload array at each location the
\* code looks at, at none of them, and with a summary of the remote's own
Stage2Bodies == {
    JObject([analysis |-> Payload1,
             summary |-> JObject([pastSpend |-> JNum(100), projectedSpend |-> JNum(105)])]),
    JObject([analysis |-> JArray(<<RemoteItem1, RemoteItem1>>),
             summary |-> JObject([pastSpend |-> JNum(100), projectedSpend |-> JNum(105)])]),
    JObject([analysis |-> Payload2]),
    JObject([analysis |-> Payload3]),
    JObject([items |-> Payload1]),
    JObject([items |-> JText, analysis |-> Payload2]),
    JObject([items |-> JArray(<<>>), analysis |-> Payload1, summary |-> JArray(<<>>)]),
    JObject([items |-> Payload2, analysis |-> Payload1]),
    JObject([analysis |-> Payload1, data |-> Payload2]),
    JObject([data |-> Payload1, vendors |-> Payload2, result |-> Payload1]),
    JObject([vendors |-> Payload2, result |-> Payload1]),
    Payload2,
    JObject([data |-> Payload1]),
    JObject([vendors |-> Payload2]),
    JObject([result |-> Payload1]),
    JObject([message |-> JText]),
    JNull }

Stage1Bodies == { JObject([normalizedData |-> Payload1]), JObject([message |-> JText]), JNull }

ConnReplies == { TransportFailure, HttpError, Ok200(JObject([data |-> JArray(<<>>)])) }
Stage1Replies == { TransportFailure, HttpError, Unparsable } \cup { Ok200(b) : b \in Stage1Bodies }
Stage2Replies == { TransportFailure, HttpError, Unparsable } \cup { Ok200(b) : b \in Stage2Bodies }

InitDemo ==
    /\ dPipeline \in {"n8n", "openai"}
    /\ dData \in DemoLists \cup (IF dPipeline = "openai" THEN LongSheets ELSE {})
    /\ dPc = "start"
    /\ dStep1 = JNull
    /\ dSent = <<>>
    /\ dPath = "none"
    /\ dSettled = "pending"
    /\ dOut = NoResult
    /\ dError = NoError
    /\ dReplies = <<>>
    /\ runs = <<>>
    /\ GroupIdle
    /\ MainIdle
    /\ ExtIdle

\* processWithNormalAPIs is called: callStep1Api sends the stage-1 request
DemoCall ==
    /\ dPipeline = "n8n"
    /\ dPc = "start"
    /\ dSent' = Append(dSent, "step1")
    /\ dPc' = "step1"
    /\ UNCHANGED <<dPipeline, dData, dStep1, dPath, dSettled, dOut, dError, dReplies,
                   runs, gvars, mvars, xvars>>

\* the catch block of processWithNormalAPIs: the error is logged and the
\* call resolves with generateMockData(excelData)
DemoFallback(error) ==
    /\ \E randoms \in [1..Len(dData) -> RandomBases] :
          dOut' = generateMockData(dData, randoms)
    /\ dError' = error
    /\ dPath' = "fallback"
    /\ dSettled' = "resolved"
    /\ dPc' = "done"

\* what callStep1Api / callStep2Api throw on this reply (NoError: none)
StepApiError(reply) ==
    IF ~reply.net THEN Err("TypeError", 0)
    ELSE IF ~reply.ok THEN Err("API_ERROR", reply.status)
    ELSE IF ~reply.parsable THEN Err("SyntaxError", 0)
    ELSE NoError

\* the stage-1 reply arrives: callStep1Api throws, or returns the body and
\* callStep2Api sends the stage-2 request
DemoStep1Reply ==
    /\ dPipeline = "n8n"
    /\ dPc = "step1"
    /\ \E reply \in Stage1Replies :
          /\ dReplies' = Append(dReplies, Received("step1", reply))
          /\ IF StepApiError(reply) # NoError
             THEN /\ DemoFallback(StepApiError(reply))
                  /\ UNCHANGED <<dStep1, dSent>>
             ELSE /\ dStep1' = reply.body
                  /\ dSent' = Append(dSent, "step2")
                  /\ dPc' = "step2"
                  /\ UNCHANGED <<dPath, dSettled, dOut, dError>>
    /\ UNCHANGED <<dPipeline, dData, runs, gvars, mvars, xvars>>

\* the stage-2 reply arrives: callStep2Api throws, or the body is mapped;
\* an empty mapping throws too; otherwise the summary is generated and the
\* call resolves
DemoStep2Reply ==
    /\ dPipeline = "n8n"
    /\ dPc = "step2"
    /\ \E reply \in Stage2Replies :
          /\ dReplies' = Append(dReplies, Received("step2", reply))
          /\ IF StepApiError(reply) # NoError
             THEN DemoFallback(StepApiError(reply))
             ELSE LET analysis == mapToSpendAnalysis(dStep1, reply.body) IN
                  IF Len(analysis) = 0
                  THEN DemoFallback(Err("Error", 0))
                  ELSE /\ dOut' = [analysis |-> analysis,
                                   summary |-> generateSummaryMetrics(analysis)]
                       /\ dPath' = "remote"
                       /\ dSettled' = "resolved"
                       /\ dPc' = "done"
                       /\ UNCHANGED dError
    /\ UNCHANGED <<dPipeline, dData, dStep1, dSent, runs, gvars, mvars, xvars>>

\* the caller's view of a performAnalysis run: the array it passed (sorted
\* in place by the run), and the promise's outcome once the run is done
PerfObserve(run) ==
    /\ dData' = run.data
    /\ dSent' = run.sent
    /\ IF run.pc = "done"
       THEN /\ dPc' = "done"
            /\ dSettled' = run.outcome
            /\ dOut' = run.result
            /\ dError' = run.error
            /\ dPath' = IF run.outcome = "resolved" THEN "remote" ELSE "none"
       ELSE /\ dPc' = "running"
            /\ UNCHANGED <<dSettled, dOut, dError, dPath>>

\* performAnalysis(excelData) is called
PerfCall ==
    /\ dPipeline = "openai"
    /\ dPc = "start"
    /\ runs' = <<NewRun(dData)>>
    /\ PerfObserve(runs'[1])
    /\ UNCHANGED <<dPipeline, dStep1, dReplies, gvars, mvars, xvars>>

PerfConnReply ==
    /\ dPipeline = "openai"
    /\ dPc = "running"
    /\ runs[1].pc = "conn"
    /\ \E reply \in ConnReplies :
          /\ runs' = <<RunOnConn(runs[1], reply)>>
          /\ dReplies' = Append(dReplies, Received("models", reply))
    /\ PerfObserve(runs'[1])
    /\ UNCHANGED <<dPipeline, dStep1, gvars, mvars, xvars>>

PerfStage1Reply ==
    /\ dPipeline = "openai"
    /\ dPc = "running"
    /\ runs[1].pc = "stage1"
    /\ \E reply \in Stage1Replies :
          /\ runs' = <<RunOnStage1(runs[1], reply)>>
          /\ dReplies' = Append(dReplies, Received("stage1", reply))
    /\ PerfObserve(runs'[1])
    /\ UNCHANGED <<dPipeline, dStep1, gvars, mvars, xvars>>

PerfStage2Reply ==
    /\ dPipeline = "openai"
    /\ dPc = "running"
    /\ runs[1].pc = "stage2"
    /\ \E reply \in Stage2Replies :
          /\ runs' = <<RunOnStage2(runs[1], reply)>>
          /\ dReplies' = Append(dReplies, Received("stage2", reply))
    /\ PerfObserve(runs'[1])
    /\ UNCHANGED <<dPipeline, dStep1, gvars, mvars, xvars>>

NextDemo ==
    \/ DemoCall
    \/ DemoStep1Reply
    \/ DemoStep2Reply
    \/ PerfCall
    \/ PerfConnReply
    \/ PerfStage1Reply
    \/ PerfStage2Reply

SpecDemo == InitDemo /\ [][NextDemo]_vars

-----------------------------------------------------------------------------
(* Claims about the analysis call (SpecDemo)                               *)

\* the distinct vendor names of the input rows, compared case-insensitively
DistinctVendors(rows) ==
    { ToLowerCase(extractVendorName(rows[k])) : k \in 1..Len(rows) } \ { <<>> }

\* the call is over and the remote stages were not completed
RemoteFailed == dPc = "done" /\ dPath # "remote"

C6_EmptyInputSurfacesError ==
    (RemoteFailed /\ dData = <<>>) => (dSettled = "rejected" /\ dOut = NoResult)

SumsHold(result) ==
    /\ result.summary.pastSpend = SumField(result.analysis, "pastSpend")
    /\ result.summary.projectedSpend = SumField(result.analysis, "projectedSpend")

Stage1Requests == {"step1", "stage1"}
Stage2Requests == {"step2", "stage2"}

NotOk(received) == received.reply.net /\ ~received.reply.ok

\* C17: a non-2xx response from stage 1 or from stage 2 ends the remote
\* protocol at that stage with an error of type API_ERROR that carries the
\* HTTP status; after a non-2xx response of stage 1 no stage-2 request is
\* sent, and a stage-2 request is only sent after a 2xx response of stage 1
C17_FailedStageEndsProtocol ==
    /\ \A i \in 1..Len(dReplies) :
          (dReplies[i].request \in Stage1Requests \cup Stage2Requests /\ NotOk(dReplies[i])) =>
              /\ i = Len(dReplies)
              /\ dPc = "done"
              /\ dError = Err("API_ERROR", dReplies[i].reply.status)
              /\ dReplies[i].request \in Stage1Requests =>
                    \A k \in 1..Len(dSent) : dSent[k] \notin Stage2Requests
    /\ (\E k \in 1..Len(dSent) : dSent[k] \in Stage2Requests) =>
          \E i \in 1..Len(dReplies) :
              /\ dReplies[i].request \in Stage1Requests
              /\ dReplies[i].reply.net
              /\ dReplies[i].reply.ok

-----------------------------------------------------------------------------
(* src/src/services/openai.ts: the hashes, the result cache and the        *)
(* in-flight map                                                           *)

\* JSON.stringify of one row: its keys with their values; a key whose
\* value is undefined is left out
StringifyRow(row) ==
    LET keys == SelectSeq(KeyOrder, LAMBDA k : k \in DOMAIN row /\ row[k] # Undef)
    IN  [i \in 1..Len(keys) |-> [k |-> keys[i], v |-> row[keys[i]]]]

\* JSON.stringify(excelData)
JSONstringify(excelData) == [i \in 1..Len(excelData) |-> StringifyRow(excelData[i])]

\* SHA-256 as a digest without collisions: equal exactly on equal input
generateDataHash(data) == [sha256 |-> data]

hashFile(file) == [sha256 |-> file.bytes]

\* Map.has / Map.get on the insertion-ordered analysisCache
CacheHas(cache, key) == \E i \in 1..Len(cache) : cache[i].key = key

CacheGet(cache, key) == cache[CHOOSE i \in 1..Len(cache) : cache[i].key = key].value

\* getCachedAnalysis that never finds an entry
getCachedAnalysisNull(cache, fileHash) ==
    [hit |-> FALSE, value |-> NoResult]

\* analysisCache.get(fileHash) || null
getCachedAnalysis(cache, fileHash) ==
    IF CacheHas(cache, fileHash)
    THEN [hit |-> TRUE, value |-> CacheGet(cache, fileHash)]
    ELSE [hit |-> FALSE, value |-> NoResult]

\* the size above which cacheAnalysis drops the oldest entry
CacheCapacity == 10

\* Map.set: a key already present keeps its place
MapSet(cache, key, value) ==
    IF CacheHas(cache, key)
    THEN [i \in 1..Len(cache) |->
             IF cache[i].key = key THEN [key |-> key, value |-> value] ELSE cache[i]]
    ELSE Append(cache, [key |-> key, value |-> value])

\* cacheAnalysis that drops the newest entry when the cache is over its size
cacheAnalysisDropsNewest(cache, fileHash, analysis) ==
    LET set == MapSet(cache, fileHash, analysis)
    IN  IF Len(set) > CacheCapacity THEN SubSeq(set, 1, CacheCapacity) ELSE set

cacheAnalysis(cache, fileHash, analysis) ==
    LET set == MapSet(cache, fileHash, analysis)
    IN  IF Len(set) > CacheCapacity THEN Tail(set) ELSE set

\* a lookup that never finds the run in flight
ActiveLookupNone(active, dataHash) == 0

\* activeRequests.has(dataHash) and .get(dataHash): the run in flight for
\* the hash, 0 when there is none
ActiveLookup(active, dataHash) ==
    IF \E e \in active : e.hash = dataHash
    THEN (CHOOSE e \in active : e.hash = dataHash).run
    ELSE 0

\* activeRequests.set(dataHash, requestPromise)
ActiveSet(active, dataHash, run) ==
    { e \in active : e.hash # dataHash } \cup { [hash |-> dataHash, run |-> run] }

\* a finally block that leaves the entry in the map
ActiveDeleteNothing(active, dataHash) == active

\* activeRequests.delete(dataHash)
ActiveDelete(active, dataHash) == { e \in active : e.hash # dataHash }

\* analyzeExcelData without the check of the key
KeyCheckSkipped(key) == NoError

\* lines 38-41: throw handleConfigError(...) when the key is empty
KeyCheck(key) == IF ~key THEN Err("CONFIG_ERROR", 0) ELSE NoError

-----------------------------------------------------------------------------
(* Spec: uploads through FileUpload's processExcelFile and direct calls of *)
(* analyzeExcelData, interleaved at their await points.                    *)

MaxCalls == 2

Rows1 == << [vendor |-> Str(Ab), spend |-> Num(10)], [vendor |-> Str(Cd), spend |-> Num(5)] >>

\* Rows1 with a key whose value is undefined: another input, the same JSON
Rows1u == << [vendor |-> Str(Ab), spend |-> Num(10), category |-> Undef],
             [vendor |-> Str(Cd), spend |-> Num(5)] >>

Rows2 == << [vendor |-> Str(Cd), spend |-> Num(5)] >>

DirectInputs == { Rows1u, Rows2 }

\* files: their name, their bytes, and what XLSX reads from them; two files
\* of different bytes may hold the same rows, and a file may be unreadable
FileA == [name |-> "a.xlsx", bytes |-> <<1>>, readable |-> TRUE, rows |-> Rows1]
FileB == [name |-> "b.xlsx", bytes |-> <<2>>, readable |-> TRUE, rows |-> Rows1]
FileC == [name |-> "a.xlsx", bytes |-> <<3>>, readable |-> FALSE, rows |-> <<>>]
NoFile == [name |-> "", bytes |-> <<>>, readable |-> FALSE, rows |-> <<>>]

Files == { FileA, FileB, FileC }
FileNames == { f.name : f \in Files }

ConnOk == Ok200(JObject([data |-> JArray(<<>>)]))
Stage1Ok == Ok200(JObject([normalizedData |-> Payload1]))
Stage2OkA == Ok200(JObject([analysis |-> Payload1,
                 summary |-> JObject([pastSpend |-> JNum(100), projectedSpend |-> JNum(105)])]))
Stage2OkB == Ok200(JObject([analysis |-> JArray(<<RemoteItem1, RemoteItem1>>),
                 summary |-> JObject([pastSpend |-> JNum(200), projectedSpend |-> JNum(210)])]))

MainConnReplies == { TransportFailure, ConnOk }
MainStage1Replies == { Stage1Ok }
MainStage2Replies == { Stage2OkA, Stage2OkB }

\* the result of an earlier analysis of FileA, as lines 169-177 return it
PriorResult ==
    [analysis |-> << WithId(RemoteItem1, 1) >>,
     summary |-> RemoteSummary(Stage2OkA.body.f["summary"])]

\* the cache at the start: empty, or full after FileA and nine other files
\* were analysed, FileA first
FullCache ==
    [i \in 1..CacheCapacity |->
        [key |-> IF i = 1 THEN hashFile(FileA) ELSE [sha256 |-> <<10 + i>>],
         value |-> PriorResult]]

InitialCaches == { <<>>, FullCache }

NoHash == [sha256 |-> <<>>]
NoLookup == [hit |-> FALSE, value |-> NoResult]

\* a call at its first await
NewCall(kind, file, pc) ==
    [kind |-> kind, file |-> file, data |-> <<>>, pc |-> pc,
     fileHash |-> NoHash, cached |-> NoLookup, parsed |-> FALSE,
     analyzed |-> FALSE, dataHash |-> NoHash, saw |-> 0, run |-> 0, owner |-> FALSE,
     outcome |-> "none", result |-> NoResult, error |-> NoError,
     overlap |-> {}, after |-> {}, afterSettled |-> {}]

\* the calls whose analyzeExcelData has started and has not settled
Unsettled == { a \in 1..Len(calls) : calls[a].pc \in {"hashData", "await"} }

\* the calls whose analyzeExcelData has resolved
Resolved == { a \in 1..Len(calls) : calls[a].pc = "done" /\ calls[a].outcome = "resolved" }

\* the calls that are over, whatever their outcome
Settled == { a \in 1..Len(calls) : calls[a].pc \in {"done", "thrown"} }

\* lines 37-44: analyzeExcelData(excelData) up to its first await; the
\* call notes which calls are unsettled, which have resolved and which are
\* over by now
StartAnalyze(call, excelData) ==
    LET entered == [call EXCEPT !.data = excelData, !.analyzed = TRUE,
                                !.overlap = Unsettled, !.after = Resolved,
                                !.afterSettled = Settled]
    IN  IF KeyCheck(apiKey) # NoError
        THEN [entered EXCEPT !.pc = "thrown", !.outcome = "rejected",
                             !.error = KeyCheck(apiKey)]
        ELSE [entered EXCEPT !.pc = "hashData", !.outcome = "pending"]

InitMain ==
    /\ apiKey \in BOOLEAN
    /\ calls = <<>>
    /\ runs = <<>>
    /\ activeRequests = {}
    /\ analysisCache \in InitialCaches
    /\ analysisStatus = [n \in FileNames |-> "none"]
    /\ errorMessages = [n \in FileNames |-> "none"]
    /\ processingFiles = <<>>
    /\ delivered = <<>>
    /\ GroupIdle
    /\ DemoIdle
    /\ ExtIdle

\* the way out of a processExcelFile without its finally block: the name
\* stays in the processing list
UploadEndsStillListed(name, status, message) ==
    /\ analysisStatus' = [analysisStatus EXCEPT ![name] = status]
    /\ errorMessages' = IF status = "error"
                        THEN [errorMessages EXCEPT ![name] = message]
                        ELSE errorMessages
    /\ processingFiles' = processingFiles

\* lines 64-73 of FileUpload.tsx: the status set on the way out, the
\* message of the catch block, and the finally block
UploadEnds(name, status, message) ==
    /\ analysisStatus' = [analysisStatus EXCEPT ![name] = status]
    /\ errorMessages' = IF status = "error"
                        THEN [errorMessages EXCEPT ![name] = message]
                        ELSE errorMessages
    /\ processingFiles' = SelectSeq(processingFiles, LAMBDA n : n # name)

SetCall(c, call) == calls' = [calls EXCEPT ![c] = call]

\* onDrop for one Excel file: the file is listed as processing and
\* processExcelFile(file) runs up to its await of hashFile(file)
Upload ==
    /\ Len(calls) < MaxCalls
    /\ \E file \in Files :
          /\ calls' = Append(calls, NewCall("upload", file, "hashFile"))
          /\ processingFiles' = Append(processingFiles, file.name)
          /\ analysisStatus' = [analysisStatus EXCEPT ![file.name] = "processing"]
    /\ UNCHANGED <<apiKey, runs, activeRequests, analysisCache, errorMessages, delivered>>
    /\ UNCHANGED <<gvars, dvars, xvars>>

\* lines 24-25: hashFile is over.  file.arrayBuffer() has read the bytes, the
\* file hash is there and getCachedAnalysis reads the cache; or the read
\* failed (the file is gone or may not be read) and the catch block follows
UploadHashed ==
    /\ \E c \in 1..Len(calls), read \in BOOLEAN :
          /\ calls[c].pc = "hashFile"
          /\ IF read
             THEN /\ LET fileHash == hashFile(calls[c].file)
                     IN  SetCall(c, [calls[c] EXCEPT
                                        !.pc = "cacheRead",
                                        !.fileHash = fileHash,
                                        !.cached = getCachedAnalysis(analysisCache, fileHash)])
                  /\ UNCHANGED <<analysisStatus, errorMessages, processingFiles>>
             ELSE /\ SetCall(c, [calls[c] EXCEPT !.pc = "done"])
                  /\ UploadEnds(calls[c].file.name, "error", "NotReadableError")
    /\ UNCHANGED <<apiKey, runs, activeRequests, analysisCache, delivered>>
    /\ UNCHANGED <<gvars, dvars, xvars>>

\* lines 27-38: with a cached analysis the file is marked completed, the
\* analysis is handed over and the function returns; without one
\* parseExcelFile(file) is awaited
UploadAfterCache ==
    /\ \E c \in 1..Len(calls) :
          /\ calls[c].pc = "cacheRead"
          /\ IF calls[c].cached.hit
             THEN /\ SetCall(c, [calls[c] EXCEPT !.pc = "done"])
                  /\ delivered' = Append(delivered, [call |-> c, value |-> calls[c].cached.value])
                  /\ UploadEnds(calls[c].file.name, "completed", "none")
             ELSE /\ SetCall(c, [calls[c] EXCEPT !.pc = "parse"])
                  /\ UNCHANGED <<delivered, analysisStatus, errorMessages, processingFiles>>
    /\ UNCHANGED <<apiKey, runs, activeRequests, analysisCache>>
    /\ UNCHANGED <<gvars, dvars, xvars>>

\* lines 38-56: the parse is over; an unreadable file goes to the catch
\* block, a missing key ends the upload with an error, and otherwise
\* analyzeExcelData(excelData) is called
UploadParsed ==
    /\ \E c \in 1..Len(calls) :
          /\ calls[c].pc = "parse"
          /\ LET file == calls[c].file
                 parsed == [calls[c] EXCEPT !.parsed = TRUE, !.data = file.rows]
                 started == StartAnalyze(parsed, file.rows)
             IN  IF ~file.readable
                 THEN /\ SetCall(c, [calls[c] EXCEPT !.pc = "done"])
                      /\ UploadEnds(file.name, "error", "Error")
                 ELSE IF ~apiKey
                 THEN /\ SetCall(c, [parsed EXCEPT !.pc = "done"])
                      /\ UploadEnds(file.name, "error", "key")
                 ELSE IF started.pc = "thrown"
                 THEN /\ SetCall(c, [started EXCEPT !.pc = "done"])
                      /\ UploadEnds(file.name, "error", started.error.type)
                 ELSE /\ SetCall(c, started)
                      /\ UNCHANGED <<analysisStatus, errorMessages, processingFiles>>
    /\ UNCHANGED <<apiKey, runs, activeRequests, analysisCache, delivered>>
    /\ UNCHANGED <<gvars, dvars, xvars>>

\* analyzeExcelData(rows) called by other code than FileUpload: lines 37-44
DirectCall ==
    /\ Len(calls) < MaxCalls
    /\ \E rows \in DirectInputs :
          LET started == StartAnalyze(NewCall("direct", NoFile, "start"), rows)
          IN  calls' = Append(calls, IF started.pc = "thrown"
                                     THEN [started EXCEPT !.pc = "done"]
                                     ELSE started)
    /\ UNCHANGED <<apiKey, runs, activeRequests, analysisCache, analysisStatus,
                   errorMessages, processingFiles, delivered>>
    /\ UNCHANGED <<gvars, dvars, xvars>>

\* lines 44-57: the data hash is there; a run in flight for it is awaited,
\* otherwise performAnalysis(excelData) is started and put into the map
CallHashed ==
    /\ \E c \in 1..Len(calls) :
          /\ calls[c].pc = "hashData"
          /\ LET dataHash == generateDataHash(JSONstringify(calls[c].data))
                 found == ActiveLookup(activeRequests, dataHash)
             IN  IF found # 0
                 THEN /\ SetCall(c, [calls[c] EXCEPT !.pc = "await", !.dataHash = dataHash,
                                                     !.saw = found, !.run = found])
                      /\ UNCHANGED <<runs, activeRequests>>
                 ELSE /\ runs' = Append(runs, NewRun(calls[c].data))
                      /\ activeRequests' = ActiveSet(activeRequests, dataHash, Len(runs) + 1)
                      /\ SetCall(c, [calls[c] EXCEPT !.pc = "await", !.dataHash = dataHash,
                                                     !.run = Len(runs) + 1, !.owner = TRUE])
    /\ UNCHANGED <<apiKey, analysisCache, analysisStatus, errorMessages,
                   processingFiles, delivered>>
    /\ UNCHANGED <<gvars, dvars, xvars>>

\* the connectivity test of a run returns
RunConnReply ==
    /\ \E r \in 1..Len(runs) :
          /\ runs[r].pc = "conn"
          /\ \E reply \in MainConnReplies :
                runs' = [runs EXCEPT ![r] = RunOnConn(runs[r], reply)]
    /\ UNCHANGED <<mvars, gvars, dvars, xvars>>

\* the stage-1 reply of a run arrives
RunStage1Reply ==
    /\ \E r \in 1..Len(runs) :
          /\ runs[r].pc = "stage1"
          /\ \E reply \in MainStage1Replies :
                runs' = [runs EXCEPT ![r] = RunOnStage1(runs[r], reply)]
    /\ UNCHANGED <<mvars, gvars, dvars, xvars>>

\* the stage-2 reply of a run arrives
RunStage2Reply ==
    /\ \E r \in 1..Len(runs) :
          /\ runs[r].pc = "stage2"
          /\ \E reply \in MainStage2Replies :
                runs' = [runs EXCEPT ![r] = RunOnStage2(runs[r], reply)]
    /\ UNCHANGED <<mvars, gvars, dvars, xvars>>

\* analyzeExcelData with the delete at the end of the try block, not in a
\* finally block: a run that rejected stays in the map
CallSettledDeleteInTry ==
    /\ \E c \in 1..Len(calls) :
          /\ calls[c].pc = "await"
          /\ runs[calls[c].run].pc = "done"
          /\ calls[c].owner \/ \A o \in 1..Len(calls) :
                (calls[o].owner /\ calls[o].run = calls[c].run) => calls[o].pc = "done"
          /\ LET run == runs[calls[c].run]
                 name == calls[c].file.name
             IN  /\ SetCall(c, [calls[c] EXCEPT !.pc = "done", !.outcome = run.outcome,
                                                !.result = run.result, !.error = run.error])
                 /\ activeRequests' = IF calls[c].owner /\ run.outcome = "resolved"
                                      THEN ActiveDelete(activeRequests, calls[c].dataHash)
                                      ELSE activeRequests
                 /\ IF calls[c].kind # "upload"
                    THEN UNCHANGED <<analysisCache, analysisStatus, errorMessages,
                                     processingFiles, delivered>>
                    ELSE IF run.outcome = "resolved"
                    THEN /\ analysisCache' = cacheAnalysis(analysisCache, calls[c].fileHash,
                                                           run.result)
                         /\ delivered' = Append(delivered, [call |-> c, value |-> run.result])
                         /\ UploadEnds(name, "completed", "none")
                    ELSE /\ UploadEnds(name, "error", run.error.type)
                         /\ UNCHANGED <<analysisCache, delivered>>
    /\ UNCHANGED <<apiKey, runs>>
    /\ UNCHANGED <<gvars, dvars, xvars>>

\* lines 49 and 56-62 of openai.ts: the awaited run has settled; the call
\* that started it removes it from the map, and the call settles as the
\* run did.  For an upload, lines 55-73 of FileUpload.tsx follow: a result
\* is cached, the file marked completed and the analysis handed over; an
\* error goes to the catch block
CallSettled ==
    /\ \E c \in 1..Len(calls) :
          /\ calls[c].pc = "await"
          /\ runs[calls[c].run].pc = "done"
          \* reactions run in the order of the awaits: the starter's came first
          /\ calls[c].owner \/ \A o \in 1..Len(calls) :
                (calls[o].owner /\ calls[o].run = calls[c].run) => calls[o].pc = "done"
          /\ LET run == runs[calls[c].run]
                 name == calls[c].file.name
             IN  /\ SetCall(c, [calls[c] EXCEPT !.pc = "done", !.outcome = run.outcome,
                                                !.result = run.result, !.error = run.error])
                 /\ activeRequests' = IF calls[c].owner
                                      THEN ActiveDelete(activeRequests, calls[c].dataHash)
                                      ELSE activeRequests
                 /\ IF calls[c].kind # "upload"
                    THEN UNCHANGED <<analysisCache, analysisStatus, errorMessages,
                                     processingFiles, delivered>>
                    ELSE IF run.outcome = "resolved"
                    THEN /\ analysisCache' = cacheAnalysis(analysisCache, calls[c].fileHash,
                                                           run.result)
                         /\ delivered' = Append(delivered, [call |-> c, value |-> run.result])
                         /\ UploadEnds(name, "completed", "none")
                    ELSE /\ UploadEnds(name, "error", run.error.type)
                         /\ UNCHANGED <<analysisCache, delivered>>
    /\ UNCHANGED <<apiKey, runs>>
    /\ UNCHANGED <<gvars, dvars, xvars>>

Next ==
    \/ Upload
    \/ UploadHashed
    \/ UploadAfterCache
    \/ UploadParsed
    \/ DirectCall
    \/ CallHashed
    \/ RunConnReply
    \/ RunStage1Reply
    \/ RunStage2Reply
    \/ CallSettled

Spec == InitMain /\ [][Next]_vars

-----------------------------------------------------------------------------
(* Claims about analyzeExcelData and processExcelFile (Spec)               *)

CallIds == 1..Len(calls)

\* the inputs of two calls of analyzeExcelData serialize identically
SameInput(a, b) ==
    /\ calls[a].analyzed
    /\ calls[b].analyzed
    /\ JSONstringify(calls[a].data) = JSONstringify(calls[b].data)

\* the calls that started run r
Starters(r) == { c \in CallIds : calls[c].owner /\ calls[c].run = r }

\* C1 as stated: two calls of analyzeExcelData whose inputs serialize
\* identically and of which the second starts before the first has
\* settled share one performAnalysis run, whatever the interleaving, and
\* both receive the outcome of that run.
C1_OverlappingCallsShareOneRun ==
    \A a, b \in CallIds :
        (a \in calls[b].overlap /\ SameInput(a, b)
            /\ calls[a].run # 0 /\ calls[b].run # 0) =>
            /\ calls[a].run = calls[b].run
            /\ (calls[a].pc = "done" /\ calls[b].pc = "done") =>
                  /\ calls[a].outcome = calls[b].outcome
                  /\ calls[a].result = calls[b].result

\* C1 as amended: a call whose data hash is ready while a run for the
\* same serialization is registered in the in-flight map starts no run
\* and receives the outcome of that run; the map holds exactly the runs
\* whose starting call has not yet passed its finally block, so at most
\* one run per serialization is registered at a time.  A call that finds
\* no entry (also one that began while an identical call was unsettled,
\* but whose hash came after that call's finally) starts a run of its own.
C1_RegisteredRunIsShared ==
    /\ \A r \in 1..Len(runs) : Cardinality(Starters(r)) = 1
    /\ activeRequests =
          { [hash |-> calls[c].dataHash, run |-> calls[c].run] :
                c \in { o \in CallIds : calls[o].owner /\ calls[o].pc = "await" } }
    /\ \A a, b \in CallIds :
          (a # b /\ calls[a].owner /\ calls[b].owner
              /\ calls[a].dataHash = calls[b].dataHash) =>
              (calls[a].pc = "done" \/ calls[b].pc = "done")
    /\ \A c \in CallIds :
          calls[c].run # 0 =>
              /\ calls[c].owner <=> calls[c].saw = 0
              /\ calls[c].saw # 0 => calls[c].run = calls[c].saw
              /\ \A o \in Starters(calls[c].run) : calls[o].dataHash = calls[c].dataHash
              /\ calls[c].pc = "done" =>
                    /\ calls[c].outcome = runs[calls[c].run].outcome
                    /\ calls[c].result = runs[calls[c].run].result
                    /\ calls[c].error = runs[calls[c].run].error

\* two calls of inputs that differ as objects and agree as JSON have
\* shared the one run there is, and both have its result
C1_Witness ==
    /\ Len(calls) = 2
    /\ Len(runs) = 1
    /\ calls[1].data # calls[2].data
    /\ SameInput(1, 2)
    /\ 1 \in calls[2].overlap
    /\ calls[2].saw = 1
    /\ calls[1].pc = "done" /\ calls[2].pc = "done"
    /\ calls[2].outcome = "resolved"
    /\ calls[2].result = calls[1].result

\* C2 as stated: after a call of analyzeExcelData has resolved, a later
\* call with identical input returns the same result from the cache and
\* issues no remote request.
C2_LaterCallServedFromCache ==
    \A a, b \in CallIds :
        (a \in calls[b].after /\ SameInput(a, b) /\ calls[b].run # 0) =>
            /\ ~calls[b].owner
            /\ calls[b].pc = "done" =>
                  /\ calls[b].outcome = "resolved"
                  /\ calls[b].result = calls[a].result

\* C2 as amended: analyzeExcelData keeps no results: a call made after a
\* call with identical input has resolved receives the outcome of a run
\* started after that call settled, a run that begins with a connectivity
\* test of its own; the cache holds only what processExcelFile put there,
\* under the hash of a file's bytes.
C2_LaterCallGetsLaterRun ==
    /\ \A a, b \in CallIds :
          (a \in calls[b].after /\ SameInput(a, b) /\ calls[b].run # 0) =>
              /\ calls[b].run > calls[a].run
              /\ runs[calls[b].run].sent[1] = "models"
              /\ calls[b].pc = "done" =>
                    /\ calls[b].outcome = runs[calls[b].run].outcome
                    /\ calls[b].result = runs[calls[b].run].result
    /\ \A i \in 1..Len(analysisCache) :
          \/ \E k \in 1..Len(FullCache) : analysisCache[i] = FullCache[k]
          \/ \E c \in CallIds :
                /\ calls[c].kind = "upload"
                /\ calls[c].pc = "done"
                /\ calls[c].outcome = "resolved"
                /\ analysisCache[i] = [key |-> hashFile(calls[c].file),
                                       value |-> calls[c].result]

\* a second call made after the first resolved has a run and a result of
\* its own
C2_Witness ==
    /\ Len(calls) = 2
    /\ calls[1].kind = "direct" /\ calls[2].kind = "direct"
    /\ 1 \in calls[2].after
    /\ SameInput(1, 2)
    /\ calls[2].pc = "done"
    /\ calls[2].owner
    /\ calls[2].run = 2
    /\ calls[2].outcome = "resolved"
    /\ calls[2].result # calls[1].result

\* C3: in processExcelFile, when the cache holds an analysis under the
\* hash of the file's bytes at the time getCachedAnalysis looks, the upload
\* hands that cached analysis and summary to onAnalysisComplete and marks
\* the file completed, without parsing the file, without calling
\* analyzeExcelData and without a run.
C3_CachedFileIsNotRecomputed ==
    [][\A c \in CallIds :
          /\ (calls[c].pc = "hashFile" /\ calls'[c].pc = "cacheRead"
                  /\ CacheHas(analysisCache, hashFile(calls[c].file))) =>
                calls'[c].cached = [hit |-> TRUE,
                                    value |-> CacheGet(analysisCache, hashFile(calls[c].file))]
          /\ (calls[c].pc = "cacheRead" /\ calls'[c].pc # "cacheRead"
                  /\ calls[c].cached.hit) =>
                /\ calls'[c].pc = "done"
                /\ ~calls'[c].parsed
                /\ ~calls'[c].analyzed
                /\ calls'[c].run = 0
                /\ runs' = runs
                /\ activeRequests' = activeRequests
                /\ analysisCache' = analysisCache
                /\ analysisStatus'[calls[c].file.name] = "completed"
                /\ delivered' = Append(delivered, [call |-> c, value |-> calls[c].cached.value])
    ]_vars

\* a file is uploaded again after its analysis was cached by the first
\* upload, and the second upload hands over that analysis
C3_Witness ==
    /\ Len(calls) = 2
    /\ calls[1].kind = "upload" /\ calls[2].kind = "upload"
    /\ calls[1].file = FileB /\ calls[2].file = FileB
    /\ calls[1].outcome = "resolved"
    /\ calls[2].pc = "done"
    /\ calls[2].cached = [hit |-> TRUE, value |-> calls[1].result]
    /\ ~calls[2].parsed
    /\ Len(runs) = 1
    /\ Len(delivered) = 2
    /\ delivered[2] = [call |-> 2, value |-> calls[1].result]
    /\ analysisStatus["b.xlsx"] = "completed"

-----------------------------------------------------------------------------
(* SpecCsv: src/src/services/openai.ts, detectCsvDelimiter on the text of  *)
(* a CSV file, a sequence of characters.                                   *)

\* the specifications before this one are idle
BaseIdle ==
    /\ GroupIdle
    /\ DemoIdle
    /\ MainIdle
    /\ runs = <<>>

MaxTextLen == 5

Newline == "\n"
Semicolon == ";"
Comma == ","
Tab == "\t"

CsvChars == { Semicolon, Comma, Tab, Newline, "a" }

CsvTexts == UNION { [1..n -> CsvChars] : n \in 0..MaxTextLen }

\* text.split('\n'): the pieces between the newlines, at least one piece
RECURSIVE SplitLines(_)
SplitLines(text) ==
    IF \A i \in 1..Len(text) : text[i] # Newline THEN << text >>
    ELSE LET i == CHOOSE k \in 1..Len(text) :
                     text[k] = Newline /\ \A j \in 1..(k - 1) : text[j] # Newline
         IN  << SubSeq(text, 1, i - 1) >> \o SplitLines(SubSeq(text, i + 1, Len(text)))

\* (line.match(new RegExp(`\\${delimiter}`, 'g')) || []).length
MatchCount(line, delimiter) == Len(SelectSeq(line, LAMBDA ch : ch = delimiter))

\* the inner loop: totalCount over the lines
RECURSIVE TotalCount(_, _)
TotalCount(lines, delimiter) ==
    IF lines = <<>> THEN 0
    ELSE MatchCount(Head(lines), delimiter) + TotalCount(Tail(lines), delimiter)

\* the loop body with >= in the place of >
DelimiterStepAtLeast(state, lines, delimiter) ==
    LET totalCount == TotalCount(lines, delimiter)
    IN  IF totalCount >= state.maxCount
        THEN [bestDelimiter |-> delimiter, maxCount |-> totalCount]
        ELSE state

\* lines 309-318: one pass of the loop over the delimiters
DelimiterStep(state, lines, delimiter) ==
    LET totalCount == TotalCount(lines, delimiter)
    IN  IF totalCount > state.maxCount
        THEN [bestDelimiter |-> delimiter, maxCount |-> totalCount]
        ELSE state

\* lines 302-321
detectCsvDelimiter(text) ==
    LET lines == FirstN(SplitLines(text), 3)
        start == [bestDelimiter |-> Comma, maxCount |-> 0]
        s1 == DelimiterStep(start, lines, Semicolon)
        s2 == DelimiterStep(s1, lines, Comma)
        s3 == DelimiterStep(s2, lines, Tab)
    IN  s3.bestDelimiter

InitCsv ==
    /\ cText \in CsvTexts
    /\ cDelim = "none"
    /\ BaseIdle
    /\ StoresIdle
    /\ LaterIdle

\* line 259 of parseCsvFile: const delimiter = detectCsvDelimiter(text)
DetectDelimiter ==
    /\ cDelim = "none"
    /\ cDelim' = detectCsvDelimiter(cText)
    /\ UNCHANGED <<cText, gvars, dvars, runs, mvars, sLast, yvars>>

NextCsv == DetectDelimiter

SpecCsv == InitCsv /\ [][NextCsv]_vars

-----------------------------------------------------------------------------
(* Claims about detectCsvDelimiter (SpecCsv)                               *)

\* the occurrences of ch in cText that lie in its first three lines
InFirstThreeLines(ch) ==
    { i \in 1..Len(cText) :
        /\ cText[i] = ch
        /\ Cardinality({ j \in 1..(i - 1) : cText[j] = Newline }) < 3 }

DelimiterCount(ch) == Cardinality(InFirstThreeLines(ch))

Delimiters == << Semicolon, Comma, Tab >>

\* the delimiters whose count no other delimiter exceeds
Leaders == { d \in 1..3 : \A e \in 1..3 : DelimiterCount(Delimiters[e]) <= DelimiterCount(Delimiters[d]) }

\* C11 as stated: detectCsvDelimiter returns the delimiter with the
\* highest count over the first 3 lines, and ',' when the highest count is
\* tied or no delimiter occurs.
C11_HighestCountElseComma ==
    cDelim # "none" =>
        IF Cardinality(Leaders) = 1
        THEN \A d \in Leaders : cDelim = Delimiters[d]
        ELSE cDelim = Comma

\* C11 as amended: detectCsvDelimiter returns ',' when no delimiter occurs
\* in the first 3 lines, and otherwise, among the delimiters with the
\* highest count there, the first in the order ';', ',', tab.
C11_HighestCountFirstInOrder ==
    cDelim # "none" =>
        IF \A d \in 1..3 : DelimiterCount(Delimiters[d]) = 0
        THEN cDelim = Comma
        ELSE \E d \in Leaders :
                /\ cDelim = Delimiters[d]
                /\ \A e \in Leaders : d <= e

\* one semicolon and one comma in the first three lines: the semicolon wins
C11_Witness ==
    /\ cDelim = Semicolon
    /\ DelimiterCount(Semicolon) = 1
    /\ DelimiterCount(Comma) = 1
    /\ DelimiterCount(Tab) = 0
    /\ Len(cText) = 5

-----------------------------------------------------------------------------
(* SpecStores: the two shared maps of src/src/services/openai.ts under     *)
(* the operations that touch them: cacheAnalysis and getCachedAnalysis on  *)
(* analysisCache; the check-and-set and the finally block of               *)
(* analyzeExcelData on activeRequests.                                     *)

\* file hashes cached and looked up
StoreKeys == { hashFile(FileA), hashFile(FileB), hashFile(FileC) }

\* another analysis result than PriorResult
OtherResult ==
    [analysis |-> << WithId(RemoteItem1, 1), WithId(RemoteItem1, 2) >>,
     summary |-> RemoteSummary(Stage2OkB.body.f["summary"])]

StoreValues == { PriorResult, OtherResult }

\* data hashes of calls made while the map is watched
NewInputs == { generateDataHash(JSONstringify(Rows1)),
               generateDataHash(JSONstringify(Rows2)),
               generateDataHash(JSONstringify(<<>>)) }

\* the run started for an input: one the nine earlier runs are not
RunOf(dataHash) == CacheCapacity + Len(dataHash.sha256)

\* the map while nine calls with inputs of their own await their runs,
\* whose replies are not in yet
NineInFlight ==
    { [hash |-> generateDataHash(<< << [k |-> "vendor", v |-> Num(i)] >> >>), run |-> i] :
        i \in 1..(CacheCapacity - 1) }

InitStores ==
    /\ analysisCache \in InitialCaches
    /\ activeRequests \in { {}, NineInFlight }
    /\ sLast = <<>>
    /\ apiKey = TRUE
    /\ calls = <<>>
    /\ analysisStatus = <<>>
    /\ errorMessages = <<>>
    /\ processingFiles = <<>>
    /\ delivered = <<>>
    /\ runs = <<>>
    /\ GroupIdle
    /\ DemoIdle
    /\ CsvIdle
    /\ LaterIdle

StoresFrame ==
    UNCHANGED <<apiKey, calls, analysisStatus, errorMessages, processingFiles,
                delivered, runs, gvars, dvars, cvars, yvars>>

\* cacheAnalysis(fileHash, analysis)
StoreCache ==
    /\ \E fileHash \in StoreKeys, analysis \in StoreValues :
          /\ analysisCache' = cacheAnalysis(analysisCache, fileHash, analysis)
          /\ sLast' = << [op |-> "cacheAnalysis", key |-> fileHash,
                          got |-> [hit |-> TRUE, value |-> analysis]] >>
    /\ UNCHANGED activeRequests
    /\ StoresFrame

\* getCachedAnalysis(fileHash)
StoreRead ==
    /\ \E fileHash \in StoreKeys :
          sLast' = << [op |-> "getCachedAnalysis", key |-> fileHash,
                       got |-> getCachedAnalysis(analysisCache, fileHash)] >>
    /\ UNCHANGED <<analysisCache, activeRequests>>
    /\ StoresFrame

\* lines 47-54 of analyzeExcelData: with no run in flight for the hash, a
\* run is started and put into the map
RequestStart ==
    /\ \E dataHash \in NewInputs :
          IF ActiveLookup(activeRequests, dataHash) # 0
          THEN UNCHANGED activeRequests
          ELSE activeRequests' = ActiveSet(activeRequests, dataHash, RunOf(dataHash))
    /\ UNCHANGED <<analysisCache, sLast>>
    /\ StoresFrame

\* lines 59-62: the run of a call made here has settled, and the call that
\* started it leaves through its finally block
RequestFinish ==
    /\ \E dataHash \in NewInputs :
          /\ ActiveLookup(activeRequests, dataHash) # 0
          /\ activeRequests' = ActiveDelete(activeRequests, dataHash)
    /\ UNCHANGED <<analysisCache, sLast>>
    /\ StoresFrame

NextStores ==
    \/ StoreCache
    \/ StoreRead
    \/ RequestStart
    \/ RequestFinish

SpecStores == InitStores /\ [][NextStores]_vars

-----------------------------------------------------------------------------
(* Claims about the two stores (SpecStores)                                *)

CacheKeys(cache) == { cache[i].key : i \in 1..Len(cache) }

\* C12 as stated: after every operation neither the analysis cache nor the
\* in-flight map holds more than 10 entries, and an insert that exceeds the
\* capacity evicts the oldest-inserted entry (a read does not refresh an
\* entry's age).
C12_BothStoresBounded ==
    /\ [](Len(analysisCache) <= CacheCapacity /\ Cardinality(activeRequests) <= CacheCapacity)
    /\ [][CacheKeys(analysisCache) \ CacheKeys(analysisCache') # {} =>
             CacheKeys(analysisCache) \ CacheKeys(analysisCache') = { analysisCache[1].key }]_vars

\* C12 as amended: the analysis cache never holds more than 10 entries
\* after an operation, its keys are distinct and stay in the order of
\* their first insertion (neither a read nor a second insert under the same
\* key moves an entry), an inserted value is what a read then finds, and
\* the one insert that would make it 11 evicts the first entry.  The in-flight map has no capacity: it holds one entry
\* per distinct input whose run has not settled, and loses an entry only
\* through the finally block of the call that started the run.
C12_CacheBoundedOldestEvicted ==
    /\ [](/\ Len(analysisCache) <= CacheCapacity
          /\ \A i, j \in 1..Len(analysisCache) :
                analysisCache[i].key = analysisCache[j].key => i = j
          /\ sLast # <<>> =>
                getCachedAnalysis(analysisCache, sLast[1].key) = sLast[1].got
          /\ \A e, f \in activeRequests : e.hash = f.hash => e = f)
    /\ [][/\ \/ Len(analysisCache') = Len(analysisCache)
             \/ Len(analysisCache') = Len(analysisCache) + 1
          /\ IF CacheKeys(analysisCache) \subseteq CacheKeys(analysisCache')
             THEN \A i \in 1..Len(analysisCache) :
                     analysisCache'[i].key = analysisCache[i].key
             ELSE /\ Len(analysisCache) = CacheCapacity
                  /\ \A i \in 1..(CacheCapacity - 1) :
                        analysisCache'[i].key = analysisCache[i + 1].key
                  /\ analysisCache'[CacheCapacity].key \notin CacheKeys(analysisCache)
          /\ (sLast' # <<>> /\ sLast'[1].op = "getCachedAnalysis") =>
                analysisCache' = analysisCache
          /\ Cardinality(activeRequests') < Cardinality(activeRequests) =>
                \E e \in activeRequests : activeRequests' = activeRequests \ { e }
         ]_vars

\* the cache is full without FileA, which it held first, and more than ten
\* runs are in flight
C12_Witness ==
    /\ Len(analysisCache) = CacheCapacity
    /\ hashFile(FileA) \notin CacheKeys(analysisCache)
    /\ analysisCache[CacheCapacity].key = hashFile(FileB)
    /\ sLast # <<>>
    /\ Cardinality(activeRequests) = CacheCapacity + 2

-----------------------------------------------------------------------------
(* src/src/services/conversationData.ts: ConversationDataManager.  The     *)
(* conversations Map is a sequence of [key, value] entries in insertion    *)
(* order, the value being the ConversationData record.  Amounts are        *)
(* counted in cents, so that the half getChatContext takes of min + max    *)
(* stays a whole number; the amounts stored are whole euros.  The          *)
(* uploadTimestamp, rawData and normalizedData of a record are written     *)
(* once by storeAnalysis and read by nothing modelled here: they are left  *)
(* out.                                                                    *)

Eur(n) == 100 * n

\* the fileId argument of getChatContext left out
NoArgument == "undefined"

\* lines 52-61 of storeAnalysis: the record built for a file
NewConversation(fileId, fileName, analysisResults, summaryMetrics) ==
    [fileId |-> fileId,
     fileName |-> fileName,
     analysisResults |-> analysisResults,
     summaryMetrics |-> summaryMetrics,
     conversationHistory |-> <<>>]

\* lines 63-64 of storeAnalysis: conversations.set(fileId, conversationData)
storeAnalysis(convs, fileId, fileName, analysisResults, summaryMetrics) ==
    MapSet(convs, fileId,
           NewConversation(fileId, fileName, analysisResults, summaryMetrics))

\* an addChatMessage that puts the message in front of the history
addChatMessagePrepends(convs, fileId, message) ==
    IF CacheHas(convs, fileId)
    THEN [i \in 1..Len(convs) |->
             IF convs[i].key = fileId
             THEN [convs[i] EXCEPT !.value.conversationHistory = <<message>> \o @]
             ELSE convs[i]]
    ELSE convs

\* lines 144-157: conversation.conversationHistory.push(message) when the
\* record exists, a warning on the console when it does not
addChatMessage(convs, fileId, message) ==
    IF CacheHas(convs, fileId)
    THEN [i \in 1..Len(convs) |->
             IF convs[i].key = fileId
             THEN [convs[i] EXCEPT !.value.conversationHistory = Append(@, message)]
             ELSE convs[i]]
    ELSE convs

\* lines 162-165: conversation?.conversationHistory || []
getConversationHistory(convs, fileId) ==
    IF CacheHas(convs, fileId)
    THEN CacheGet(convs, fileId).conversationHistory
    ELSE <<>>

\* a switch that does not look whether the file is stored
setCurrentFileUnchecked(convs, current, fileId) ==
    [currentFileId |-> fileId, returned |-> TRUE]

\* lines 175-183: the pointer moves only to a file that is stored
setCurrentFile(convs, current, fileId) ==
    IF CacheHas(convs, fileId)
    THEN [currentFileId |-> fileId, returned |-> TRUE]
    ELSE [currentFileId |-> current, returned |-> FALSE]

\* line 80: Array.from(this.conversations.values())
AvailableFiles(convs) == [i \in 1..Len(convs) |-> convs[i].value]

\* line 83: reduce((sum, file) => sum + file.analysisResults.length, 0)
RECURSIVE TotalVendors(_)
TotalVendors(files) ==
    IF files = <<>> THEN 0
    ELSE TotalVendors(SubSeq(files, 1, Len(files) - 1))
            + Len(files[Len(files)].analysisResults)

\* line 84: reduce((sum, file) => sum + file.summaryMetrics.pastSpend, 0)
RECURSIVE TotalSpend(_)
TotalSpend(files) ==
    IF files = <<>> THEN 0
    ELSE TotalSpend(SubSeq(files, 1, Len(files) - 1))
            + files[Len(files)].summaryMetrics.pastSpend

\* lines 85-87: reduce((sum, file) => sum + (min + max) / 2, 0); the sum of
\* two whole-euro amounts in cents is even and its half exact
RECURSIVE TotalSavings(_)
TotalSavings(files) ==
    IF files = <<>> THEN 0
    ELSE TotalSavings(SubSeq(files, 1, Len(files) - 1))
            + ((files[Len(files)].summaryMetrics.potentialSavings.min
                + files[Len(files)].summaryMetrics.potentialSavings.max) \div 2)

\* lines 93-94: the analysis items of every file, in the order the two
\* nested forEach loops visit them
RECURSIVE AllAnalyses(_)
AllAnalyses(files) ==
    IF files = <<>> THEN <<>>
    ELSE files[1].analysisResults \o AllAnalyses(Tail(files))

\* lines 96-97: categorySpendMap.get(category) || 0, then set
CategoryStep(map, analysis) ==
    LET currentCategorySpend ==
            IF CacheHas(map, analysis.category)
            THEN CacheGet(map, analysis.category)
            ELSE 0
    IN  MapSet(map, analysis.category, currentCategorySpend + analysis.pastSpend)

RECURSIVE CategorySpendMap(_)
CategorySpendMap(analyses) ==
    IF analyses = <<>> THEN <<>>
    ELSE CategoryStep(CategorySpendMap(SubSeq(analyses, 1, Len(analyses) - 1)),
                      analyses[Len(analyses)])

\* lines 100-104: vendorSpendArray.push({name, spend, category})
VendorSpendArray(analyses) ==
    [i \in 1..Len(analyses) |->
        [name |-> analyses[i].vendor,
         spend |-> analyses[i].pastSpend,
         category |-> analyses[i].category]]

\* Array.prototype.sort with (a, b) => b[1] - a[1]: the sort is stable, an
\* entry goes behind the entries that are not smaller
RECURSIVE InsertCategory(_, _)
InsertCategory(sorted, entry) ==
    IF sorted = <<>> THEN <<entry>>
    ELSE IF sorted[1].value >= entry.value
         THEN <<sorted[1]>> \o InsertCategory(Tail(sorted), entry)
         ELSE <<entry>> \o sorted

RECURSIVE SortCategories(_)
SortCategories(entries) ==
    IF entries = <<>> THEN <<>>
    ELSE InsertCategory(SortCategories(SubSeq(entries, 1, Len(entries) - 1)),
                        entries[Len(entries)])

\* Array.prototype.sort with (a, b) => b.spend - a.spend
RECURSIVE InsertVendor(_, _)
InsertVendor(sorted, entry) ==
    IF sorted = <<>> THEN <<entry>>
    ELSE IF sorted[1].spend >= entry.spend
         THEN <<sorted[1]>> \o InsertVendor(Tail(sorted), entry)
         ELSE <<entry>> \o sorted

RECURSIVE SortVendors(_)
SortVendors(entries) ==
    IF entries = <<>> THEN <<>>
    ELSE InsertVendor(SortVendors(SubSeq(entries, 1, Len(entries) - 1)),
                      entries[Len(entries)])

\* Array.prototype.slice(0, end)
SliceFromStart(seq, end) ==
    IF Len(seq) <= end THEN seq ELSE SubSeq(seq, 1, end)

\* line 111: .slice(0, 5)
TopCategoryLimit == 5

\* line 117: .slice(0, 10)
TopVendorLimit == 10

\* lines 108-112
TopCategories(analyses) ==
    LET sorted == SliceFromStart(SortCategories(CategorySpendMap(analyses)),
                                 TopCategoryLimit)
    IN  [i \in 1..Len(sorted) |-> sorted[i].key]

\* a topVendors that is cut to its length before it is sorted
TopVendorsCutFirst(analyses) ==
    SortVendors(SliceFromStart(VendorSpendArray(analyses), TopVendorLimit))

\* lines 115-117
TopVendors(analyses) ==
    SliceFromStart(SortVendors(VendorSpendArray(analyses)), TopVendorLimit)

\* lines 77-139 of getChatContext; a currentFile that is undefined is the
\* empty sequence, one that is found a sequence of that one record
getChatContext(convs, current, fileId) ==
    LET targetFileId == IF fileId # NoArgument THEN fileId ELSE current
        currentFile ==
            IF targetFileId # NoFileId /\ CacheHas(convs, targetFileId)
            THEN << CacheGet(convs, targetFileId) >>
            ELSE <<>>
        availableFiles == AvailableFiles(convs)
    IN  [currentFile |-> currentFile,
         availableFiles |-> availableFiles,
         totalVendors |-> TotalVendors(availableFiles),
         totalSpend |-> TotalSpend(availableFiles),
         totalSavings |-> TotalSavings(availableFiles),
         topCategories |-> TopCategories(AllAnalyses(availableFiles)),
         topVendors |-> TopVendors(AllAnalyses(availableFiles))]

-----------------------------------------------------------------------------
(* SpecConv: the methods of the manager called in any order on a few file  *)
(* ids, analyses and messages.                                             *)

MaxHistory == 2

FileIds == { "democompany_1_a", "democompany_2_b" }

Item(vendor, category, pastSpend) ==
    [vendor |-> vendor, category |-> category, pastSpend |-> pastSpend]

Summary(pastSpend, min, max) ==
    [pastSpend |-> pastSpend, potentialSavings |-> [min |-> min, max |-> max]]

\* six items in six categories, two of them with the same spend
WideAnalysis ==
    << Item("Adecco", "HR", Eur(5)),
       Item("Dell", "Hardware", Eur(10)),
       Item("AWS", "Cloud", Eur(30)),
       Item("Salesforce", "CRM", Eur(10)),
       Item("Accenture", "Services", Eur(5)),
       Item("Microsoft", "Software", Eur(40)) >>

\* two items, both of a category of WideAnalysis
NarrowAnalysis ==
    << Item("Adobe", "Hardware", Eur(15)),
       Item("Lenovo", "Hardware", Eur(35)) >>

Uploads ==
    { [analysis |-> WideAnalysis, summary |-> Summary(Eur(100), Eur(5), Eur(15))],
      [analysis |-> NarrowAnalysis, summary |-> Summary(Eur(50), Eur(3), Eur(7))],
      [analysis |-> <<>>, summary |-> Summary(0, 0, 0)] }

ChatMessages ==
    { [id |-> "msg_1_a", role |-> "user", content |-> "Where are my savings?"],
      [id |-> "msg_2_b", role |-> "assistant", content |-> "Consolidate hardware."] }

InitConv ==
    /\ ConvIdle
    /\ BaseIdle
    /\ CsvIdle
    /\ StoresIdle
    /\ AppIdle
    /\ DropIdle
    /\ RelayIdle
    /\ DecimalsIdle

ConvFrame == UNCHANGED <<gvars, dvars, runs, mvars, cvars, sLast, avars, ovars, wvars, evars>>

NoMessage == [id |-> "", role |-> "", content |-> ""]

Called(op, fileId, message, returned) ==
    << [op |-> op, fileId |-> fileId, message |-> message, returned |-> returned] >>

StoreAnalysis ==
    \E fileId \in FileIds, upload \in Uploads :
        /\ conversations' = storeAnalysis(conversations, fileId, "Procurement Analysis",
                                          upload.analysis, upload.summary)
        /\ currentFileId' = fileId
        /\ kLast' = Called("storeAnalysis", fileId, NoMessage, "undefined")
        /\ ConvFrame

AddChatMessage ==
    \E fileId \in FileIds, message \in ChatMessages :
        /\ Len(getConversationHistory(conversations, fileId)) < MaxHistory
        /\ conversations' = addChatMessage(conversations, fileId, message)
        /\ kLast' = Called("addChatMessage", fileId, message, "undefined")
        /\ UNCHANGED currentFileId
        /\ ConvFrame

SetCurrentFile ==
    \E fileId \in FileIds :
        LET set == setCurrentFile(conversations, currentFileId, fileId)
        IN  /\ currentFileId' = set.currentFileId
            /\ kLast' = Called("setCurrentFile", fileId, NoMessage, set.returned)
            /\ UNCHANGED conversations
            /\ ConvFrame

GetChatContext ==
    \E fileId \in FileIds \cup {NoArgument} :
        /\ kLast' = Called("getChatContext", fileId, NoMessage,
                           getChatContext(conversations, currentFileId, fileId))
        /\ UNCHANGED <<conversations, currentFileId>>
        /\ ConvFrame

\* lines 197-201 of clear
Clear ==
    /\ conversations' = <<>>
    /\ currentFileId' = NoFileId
    /\ kLast' = Called("clear", NoArgument, NoMessage, "undefined")
    /\ ConvFrame

NextConv ==
    \/ StoreAnalysis
    \/ AddChatMessage
    \/ SetCurrentFile
    \/ GetChatContext
    \/ Clear

SpecConv == InitConv /\ [][NextConv]_vars

\* the operation of the step just taken
LastOp == IF kLast = <<>> THEN "none" ELSE kLast[1].op

\* C13: for every fileId the conversationHistory is append-only: over a
\* storeAnalysis, addChatMessage, setCurrentFile or getChatContext call a
\* message that is in the history of that fileId stays in it, unchanged and
\* at the same position
C13_HistoryIsAppendOnly ==
    [][ LastOp' \in {"storeAnalysis", "addChatMessage", "setCurrentFile", "getChatContext"} =>
            \A fileId \in FileIds :
                LET before == getConversationHistory(conversations, fileId)
                    after == getConversationHistory(conversations', fileId)
                IN  /\ Len(before) <= Len(after)
                    /\ SubSeq(after, 1, Len(before)) = before ]_vars

\* the places of the analysis items stored: record i, item j
StoredItemPlaces ==
    { <<i, j>> \in (1..Len(conversations)) \X (1..(2 * TopVendorLimit)) :
          j <= Len(conversations[i].value.analysisResults) }

StoredItem(place) == conversations[place[1]].value.analysisResults[place[2]]

RECURSIVE SpendAt(_)
SpendAt(places) ==
    IF places = {} THEN 0
    ELSE LET place == CHOOSE q \in places : TRUE
         IN  StoredItem(place).pastSpend + SpendAt(places \ {place})

StoredCategories == { StoredItem(place).category : place \in StoredItemPlaces }

AggregateSpend(category) ==
    SpendAt({ place \in StoredItemPlaces : StoredItem(place).category = category })

RECURSIVE SummarySpendOf(_)
SummarySpendOf(records) ==
    IF records = {} THEN 0
    ELSE LET i == CHOOSE k \in records : TRUE
         IN  conversations[i].value.summaryMetrics.pastSpend
                + SummarySpendOf(records \ {i})

RECURSIVE SavingsBoundsOf(_)
SavingsBoundsOf(records) ==
    IF records = {} THEN 0
    ELSE LET i == CHOOSE k \in records : TRUE
             potentialSavings == conversations[i].value.summaryMetrics.potentialSavings
         IN  potentialSavings.min + potentialSavings.max + SavingsBoundsOf(records \ {i})

LesserOf(a, b) == IF a <= b THEN a ELSE b

\* C14: what getChatContext returns is computed from exactly the records
\* stored when it is called: totalSpend is the sum of summaryMetrics.pastSpend
\* over the stored records, totalSavings the sum of (min + max) / 2 over them,
\* topVendors the (at most 10) stored items of highest spend in descending
\* order of spend, topCategories the (at most 5) categories of highest
\* aggregate spend in descending order of it
C14_ContextFromStoredRecords ==
    LastOp = "getChatContext" =>
        LET context == kLast[1].returned
            topVendors == context.topVendors
            topCategories == context.topCategories
        IN  /\ Len(context.availableFiles) = Len(conversations)
            /\ \A i \in 1..Len(conversations) :
                   context.availableFiles[i] = conversations[i].value
            /\ context.totalVendors = Cardinality(StoredItemPlaces)
            /\ context.totalSpend = SummarySpendOf(1..Len(conversations))
            /\ 2 * context.totalSavings = SavingsBoundsOf(1..Len(conversations))
            /\ Len(topVendors) = LesserOf(TopVendorLimit, Cardinality(StoredItemPlaces))
            /\ \A i \in 1..Len(topVendors) : \A j \in 1..Len(topVendors) :
                   i < j => topVendors[i].spend >= topVendors[j].spend
            /\ \A i \in 1..Len(topVendors) :
                   Cardinality({ j \in 1..Len(topVendors) : topVendors[j] = topVendors[i] })
                     <= Cardinality({ place \in StoredItemPlaces :
                                        /\ StoredItem(place).vendor = topVendors[i].name
                                        /\ StoredItem(place).pastSpend = topVendors[i].spend
                                        /\ StoredItem(place).category = topVendors[i].category })
            /\ \A place \in StoredItemPlaces :
                   Cardinality({ j \in 1..Len(topVendors) :
                                   topVendors[j].spend >= StoredItem(place).pastSpend })
                     = LesserOf(TopVendorLimit,
                                Cardinality({ other \in StoredItemPlaces :
                                    StoredItem(other).pastSpend >= StoredItem(place).pastSpend }))
            /\ Len(topCategories) = LesserOf(TopCategoryLimit, Cardinality(StoredCategories))
            /\ \A i \in 1..Len(topCategories) : topCategories[i] \in StoredCategories
            /\ \A i \in 1..Len(topCategories) : \A j \in 1..Len(topCategories) :
                   i < j => /\ topCategories[i] # topCategories[j]
                            /\ AggregateSpend(topCategories[i]) >= AggregateSpend(topCategories[j])
            /\ \A category \in StoredCategories :
                   Cardinality({ j \in 1..Len(topCategories) :
                                   AggregateSpend(topCategories[j]) >= AggregateSpend(category) })
                     = LesserOf(TopCategoryLimit,
                                Cardinality({ other \in StoredCategories :
                                    AggregateSpend(other) >= AggregateSpend(category) }))

\* getChatContext has answered with two files stored that hold twelve items
\* in six categories between them, so that both lists are cut
C14_Witness ==
    /\ LastOp = "getChatContext"
    /\ Len(conversations) = 2
    /\ kLast[1].returned.totalVendors = 12
    /\ Len(kLast[1].returned.topVendors) = TopVendorLimit
    /\ Len(kLast[1].returned.topCategories) = TopCategoryLimit
    /\ kLast[1].returned.totalSpend = Eur(200)
    /\ kLast[1].returned.totalSavings = Eur(20)

\* C15: addChatMessage with a fileId that has no record returns without
\* throwing and changes nothing (the records, their histories and the
\* current-file pointer stay as they are); with a fileId that has a record it
\* appends the message to the end of that record's history and changes no
\* other record
C15_AddChatMessageFrame ==
    [][ LastOp' = "addChatMessage" =>
            LET fileId == kLast'[1].fileId
                message == kLast'[1].message
            IN  /\ kLast'[1].returned = "undefined"
                /\ currentFileId' = currentFileId
                /\ IF ~CacheHas(conversations, fileId)
                   THEN conversations' = conversations
                   ELSE /\ Len(conversations') = Len(conversations)
                        /\ \A i \in 1..Len(conversations) :
                              IF conversations[i].key = fileId
                              THEN conversations'[i] =
                                     [conversations[i] EXCEPT
                                        !.value.conversationHistory =
                                            conversations[i].value.conversationHistory
                                                \o <<message>>]
                              ELSE conversations'[i] = conversations[i] ]_vars

\* addChatMessage has been called with a fileId that has no record while
\* another file is stored, is current and has a message in its history
C15_Witness ==
    /\ LastOp = "addChatMessage"
    /\ ~CacheHas(conversations, kLast[1].fileId)
    /\ Len(conversations) = 1
    /\ currentFileId = conversations[1].key
    /\ conversations[1].value.conversationHistory # <<>>
    /\ kLast[1].message \in ChatMessages

-----------------------------------------------------------------------------
(* src/server.js: getFallbackResponse and POST /api/chat, the endpoint the *)
(* App sends its chat messages to.                                         *)

SavingsFallback == "I can help you identify savings opportunities once the analysis data is loaded."

VendorFallback == "I'd be happy to discuss vendor optimization strategies."

AlternativeFallback == "I can suggest vendor alternatives based on your current analysis data."

\* lines 76-81: the fallbacks array
GenericFallbacks ==
    << "I'm having trouble accessing the analysis right now.",
       "Let me help you with that.",
       "I notice there might be an issue with the data connection.",
       "I'm experiencing a temporary issue." >>

\* the messages a user sends; the empty one is what the endpoint refuses
UserMessages ==
    { "What SAVINGS can a vendor give?",
      "Any alternative?",
      "Hello",
      "" }

\* userMessage.toLowerCase().includes(word), tabulated over UserMessages
MessageIncludes(userMessage, word) ==
    <<userMessage, word>> \in {
        <<"What SAVINGS can a vendor give?", "savings">>,
        <<"What SAVINGS can a vendor give?", "vendor">>,
        <<"Any alternative?", "alternative">> }

\* lines 75-98 of server.js; random is Math.floor(Math.random() * 4)
getFallbackResponse(userMessage, random) ==
    IF MessageIncludes(userMessage, "savings") THEN SavingsFallback
    ELSE IF MessageIncludes(userMessage, "vendor") THEN VendorFallback
    ELSE IF MessageIncludes(userMessage, "alternative") THEN AlternativeFallback
    ELSE GenericFallbacks[random + 1]

AiAnswer == "Consolidate your hardware vendors."

\* what the chat-completions request of the endpoint can come to: the fetch
\* rejects, the status is not 2xx, the body has a choice or has none
CompletionReplies ==
    { [kind |-> "rejected", status |-> 0, choices |-> <<>>],
      [kind |-> "response", status |-> 429, choices |-> <<>>],
      [kind |-> "response", status |-> 200, choices |-> << AiAnswer >>],
      [kind |-> "response", status |-> 200, choices |-> <<>>] }

ChatResponse(status, success, message, error, type) ==
    [kind |-> "response", status |-> status, json |-> TRUE, success |-> success,
     message |-> message, error |-> error, type |-> type]

\* lines 100-189 of server.js: the answer of POST /api/chat to a request
\* with this message when its completions request comes to this reply
PostApiChat(message, reply, random) ==
    IF message = ""
    THEN ChatResponse(400, FALSE, "", "Message is required", "")
    ELSE IF reply.kind = "rejected"
    THEN ChatResponse(200, TRUE, getFallbackResponse(message, random), "", "fallback_response")
    ELSE IF reply.status \notin 200..299
    THEN ChatResponse(200, TRUE, getFallbackResponse(message, random), "", "fallback_response")
    ELSE IF reply.choices = <<>>
    THEN ChatResponse(200, TRUE, getFallbackResponse(message, random), "", "fallback_response")
    ELSE ChatResponse(200, TRUE, reply.choices[1], "", "ai_response")

\* what the App's fetch of /api/chat can come to without the endpoint: the
\* fetch rejects, or a gateway answers with a body that is not JSON
NoEndpointReplies ==
    { [kind |-> "rejected", status |-> 0, json |-> FALSE, success |-> FALSE,
       message |-> "", error |-> "", type |-> ""],
      [kind |-> "response", status |-> 502, json |-> FALSE, success |-> FALSE,
       message |-> "", error |-> "", type |-> ""] }

-----------------------------------------------------------------------------
(* src/src/App.tsx (the App with login, upload, dashboard and profile):    *)
(* its handlers on the singleton conversationDataManager.                  *)

MaxSends == 1

\* line 175 of App.tsx
Apology == "I'm sorry, I'm having trouble connecting right now. Please try again in a moment."

\* lines 235-247 of conversationData.ts, generateMessageId: the id of the
\* message of this role that this send adds
MessageId(send, role) == <<"msg", send, role>>

InitApp ==
    /\ AppIdle
    /\ ConvIdle
    /\ BaseIdle
    /\ CsvIdle
    /\ StoresIdle
    /\ DropIdle
    /\ RelayIdle
    /\ DecimalsIdle

AppFrame == UNCHANGED <<gvars, dvars, runs, mvars, cvars, sLast, kLast, ovars, wvars, evars>>

\* lines 85-87
HandleLogin ==
    /\ currentState = "login"
    /\ currentState' = "upload"
    /\ aLast' = "handleLogin"
    /\ UNCHANGED <<excelAnalysis, excelSummary, chatContext, aSends,
                   conversations, currentFileId>>
    /\ AppFrame

\* lines 90-107; the upload page calls it with the result of an analysis
HandleAnalysisComplete ==
    /\ currentState = "upload"
    /\ \E upload \in Uploads, fileId \in FileIds :
          LET stored == storeAnalysis(conversations, fileId, "Procurement Analysis",
                                      upload.analysis, upload.summary)
          IN  /\ excelAnalysis' = upload.analysis
              /\ excelSummary' = upload.summary
              /\ conversations' = stored
              /\ currentFileId' = fileId
              /\ chatContext' = getChatContext(stored, fileId, fileId)
    /\ currentState' = "dashboard"
    /\ aLast' = "handleAnalysisComplete"
    /\ UNCHANGED aSends
    /\ AppFrame

\* line 110
HandleProfileClick ==
    /\ currentState = "dashboard"
    /\ currentState' = "profile"
    /\ aLast' = "handleProfileClick"
    /\ UNCHANGED <<excelAnalysis, excelSummary, chatContext, aSends,
                   conversations, currentFileId>>
    /\ AppFrame

\* line 111
HandleBackToDashboard ==
    /\ currentState = "profile"
    /\ currentState' = "dashboard"
    /\ aLast' = "handleBackToDashboard"
    /\ UNCHANGED <<excelAnalysis, excelSummary, chatContext, aSends,
                   conversations, currentFileId>>
    /\ AppFrame

\* lines 112-124
HandleLogout ==
    /\ currentState = "dashboard"
    /\ currentState' = "login"
    /\ excelAnalysis' = "null"
    /\ excelSummary' = "null"
    /\ chatContext' = EmptyContext
    /\ aLast' = "handleLogout"
    /\ UNCHANGED <<aSends, conversations, currentFileId>>
    /\ AppFrame

\* lines 127-139: handleSendMessage up to its fetch; the chatContext it
\* closes over is the one of the render that showed the chat
SendMessage(limit) ==
    /\ currentState = "dashboard"
    /\ Len(aSends) < limit
    /\ \E message \in UserMessages :
          aSends' = Append(aSends,
                           [message |-> message,
                            fileId |-> IF chatContext.currentFile = <<>>
                                       THEN NoFileId
                                       ELSE chatContext.currentFile[1].fileId,
                            pc |-> "fetch",
                            response |-> "none",
                            shown |-> <<>>])
    /\ aLast' = "handleSendMessage"
    /\ UNCHANGED <<currentState, excelAnalysis, excelSummary, chatContext,
                   conversations, currentFileId>>
    /\ AppFrame

HandleSendMessage == SendMessage(MaxSends)

\* a handler that adds the reply before the message it answers
AfterFetchReplyFirst(send, response) ==
    LET sent == aSends[send]
        succeeded == response.kind = "response" /\ response.json /\ response.success
        content == IF succeeded THEN response.message ELSE Apology
        userMessage == [id |-> MessageId(send, "user"), role |-> "user",
                        content |-> sent.message]
        aiMessage == [id |-> MessageId(send, "assistant"), role |-> "assistant",
                      content |-> content]
        added == addChatMessage(addChatMessage(conversations, sent.fileId, aiMessage),
                                sent.fileId, userMessage)
    IN  /\ aSends' = [aSends EXCEPT ![send] =
                         [@ EXCEPT !.pc = "done",
                                   !.response = response,
                                   !.shown = IF sent.fileId # NoFileId /\ CacheHas(conversations, sent.fileId)
                                             THEN << content >> ELSE <<>>]]
        /\ IF sent.fileId # NoFileId
           THEN /\ conversations' = added
                /\ chatContext' = getChatContext(added, currentFileId, sent.fileId)
           ELSE UNCHANGED <<conversations, chatContext>>
        /\ aLast' = "handleSendMessage"
        /\ UNCHANGED <<currentState, excelAnalysis, excelSummary, currentFileId>>
        /\ AppFrame

\* lines 141-201: handleSendMessage from the answer of its fetch on.  With
\* data.success the user's message and data.message are added, else the
\* catch block adds the user's message and the apology; each only when the
\* chat context had a current file.  What is shown for the turn is what
\* was added to the history of that file.
AfterFetch(send, response) ==
    LET sent == aSends[send]
        succeeded == response.kind = "response" /\ response.json /\ response.success
        content == IF succeeded THEN response.message ELSE Apology
        userMessage == [id |-> MessageId(send, "user"), role |-> "user",
                        content |-> sent.message]
        aiMessage == [id |-> MessageId(send, "assistant"), role |-> "assistant",
                      content |-> content]
        added == addChatMessage(addChatMessage(conversations, sent.fileId, userMessage),
                                sent.fileId, aiMessage)
    IN  /\ aSends' = [aSends EXCEPT ![send] =
                         [@ EXCEPT !.pc = "done",
                                   !.response = response,
                                   !.shown = IF sent.fileId # NoFileId /\ CacheHas(conversations, sent.fileId)
                                             THEN << content >> ELSE <<>>]]
        /\ IF sent.fileId # NoFileId
           THEN /\ conversations' = added
                /\ chatContext' = getChatContext(added, currentFileId, sent.fileId)
           ELSE UNCHANGED <<conversations, chatContext>>
        /\ aLast' = "handleSendMessage"
        /\ UNCHANGED <<currentState, excelAnalysis, excelSummary, currentFileId>>
        /\ AppFrame

\* the endpoint answers the request
ChatServed ==
    \E send \in 1..Len(aSends), reply \in CompletionReplies,
       random \in 0..(Len(GenericFallbacks) - 1) :
        /\ aSends[send].pc = "fetch"
        /\ AfterFetch(send, PostApiChat(aSends[send].message, reply, random))

\* the request does not reach the endpoint
ChatNotServed ==
    \E send \in 1..Len(aSends), response \in NoEndpointReplies :
        /\ aSends[send].pc = "fetch"
        /\ AfterFetch(send, response)

NextApp ==
    \/ HandleLogin
    \/ HandleAnalysisComplete
    \/ HandleProfileClick
    \/ HandleBackToDashboard
    \/ HandleLogout
    \/ HandleSendMessage
    \/ ChatServed
    \/ ChatNotServed

SpecApp == InitApp /\ [][NextApp]_vars

\* C16: logout clears the conversation store: after handleLogout the store
\* holds no record and no current file, and so the chat context built for an
\* upload made after a logout (availableFiles, totalVendors, totalSpend,
\* totalSavings) is computed from the file of that upload alone
C16_LogoutClearsStore ==
    /\ aLast = "handleLogout" =>
          /\ conversations = <<>>
          /\ currentFileId = NoFileId
    /\ aLast = "handleAnalysisComplete" =>
          /\ Len(chatContext.availableFiles) = 1
          /\ chatContext.availableFiles[1].fileId = currentFileId
          /\ chatContext.totalVendors = Len(excelAnalysis)
          /\ chatContext.totalSpend = excelSummary.pastSpend
          /\ 2 * chatContext.totalSavings =
                excelSummary.potentialSavings.min + excelSummary.potentialSavings.max

\* the fetch of a send rejected, or was answered with a status that is not 2xx
ChatRequestFailed(send) ==
    /\ aSends[send].pc = "done"
    /\ \/ aSends[send].response.kind = "rejected"
       \/ aSends[send].response.status \notin 200..299

\* C19: when the chat request fails at transport level or with a non-2xx
\* status, the assistant message shown for the turn is the fallback string
\* chosen by keyword match on the user's message ("savings", "vendor",
\* "alternative"; one of the general fallbacks when no keyword matches),
\* never a raw error
C19_FailedChatShowsKeywordFallback ==
    \A send \in 1..Len(aSends) :
        (ChatRequestFailed(send) /\ aSends[send].shown # <<>>) =>
            \E random \in 0..(Len(GenericFallbacks) - 1) :
                aSends[send].shown[1] = getFallbackResponse(aSends[send].message, random)

-----------------------------------------------------------------------------
(* SpecDrop: src/src/components/FileUpload.tsx, onDrop on files of the     *)
(* types the dropzone accepts, followed by processExcelFile for the files  *)
(* it hands to it and by the timeout it sets for the others.               *)

MaxDropped == 2

\* files as the browser hands them over: File.name and File.type; kind is
\* what the file holds
SheetFile ==
    [name |-> "spend.xlsx", kind |-> "spreadsheet",
     type |-> "application/vnd.openxmlformats-officedocument.spreadsheetml.sheet",
     bytes |-> <<4>>, readable |-> TRUE, rows |-> Rows1]

CsvFile ==
    [name |-> "spend.csv", kind |-> "csv", type |-> "text/csv",
     bytes |-> <<5>>, readable |-> TRUE, rows |-> Rows2]

PdfFile ==
    [name |-> "invoice.pdf", kind |-> "pdf", type |-> "application/pdf",
     bytes |-> <<6>>, readable |-> FALSE, rows |-> <<>>]

ImageFile ==
    [name |-> "scan.png", kind |-> "image", type |-> "image/png",
     bytes |-> <<7>>, readable |-> FALSE, rows |-> <<>>]

DropFiles == { SheetFile, CsvFile, PdfFile, ImageFile }

DropNames == { f.name : f \in DropFiles }

\* acceptedFiles: the files of one drop
AcceptedLists ==
    { <<f>> : f \in DropFiles } \cup
    { pair \in DropFiles \X DropFiles : pair[1] # pair[2] }

\* file.type.includes(word), tabulated over the types of DropFiles
TypeIncludes(type, word) ==
    <<type, word>> \in {
        <<"application/vnd.openxmlformats-officedocument.spreadsheetml.sheet", "spreadsheet">> }

\* file.name.endsWith(suffix), tabulated over the names of DropFiles
NameEndsWith(name, suffix) ==
    <<name, suffix>> \in { <<"spend.xlsx", ".xlsx">> }

\* line 83: the test of onDrop
IsExcelFile(file) ==
    \/ TypeIncludes(file.type, "excel")
    \/ TypeIncludes(file.type, "spreadsheet")
    \/ NameEndsWith(file.name, ".xlsx")
    \/ NameEndsWith(file.name, ".xls")

\* lines 82-96: one turn of the loop of onDrop.  An Excel file is listed as
\* processing and processExcelFile(file) runs up to its await of
\* hashFile(file); any other file is listed and a timeout is set
DropStep(st, file) ==
    IF IsExcelFile(file)
    THEN [st EXCEPT !.processingFiles = Append(@, file.name),
                    !.analysisStatus = [@ EXCEPT ![file.name] = "processing"],
                    !.calls = Append(@, NewCall("upload", file, "hashFile"))]
    ELSE [st EXCEPT !.processingFiles = Append(@, file.name),
                    !.timers = Append(@, file.name)]

RECURSIVE DropLoop(_, _)
DropLoop(st, acceptedFiles) ==
    IF acceptedFiles = <<>> THEN st
    ELSE DropLoop(DropStep(st, Head(acceptedFiles)), Tail(acceptedFiles))

InitDrop ==
    /\ uploadedFiles = <<>>
    /\ timers = <<>>
    /\ apiKey = TRUE
    /\ calls = <<>>
    /\ runs = <<>>
    /\ activeRequests = {}
    /\ analysisCache = <<>>
    /\ analysisStatus = [n \in DropNames |-> "none"]
    /\ errorMessages = [n \in DropNames |-> "none"]
    /\ processingFiles = <<>>
    /\ delivered = <<>>
    /\ GroupIdle
    /\ DemoIdle
    /\ CsvIdle
    /\ StoresIdle
    /\ ConvIdle
    /\ AppIdle
    /\ RelayIdle
    /\ DecimalsIdle

\* lines 77-98: onDrop(acceptedFiles)
OnDrop ==
    /\ \E acceptedFiles \in AcceptedLists :
          LET st == DropLoop([processingFiles |-> processingFiles,
                              analysisStatus |-> analysisStatus,
                              calls |-> calls,
                              timers |-> timers], acceptedFiles)
          IN  /\ Len(uploadedFiles) + Len(acceptedFiles) <= MaxDropped
              /\ Len(st.calls) <= MaxCalls
              /\ uploadedFiles' = uploadedFiles \o acceptedFiles
              /\ processingFiles' = st.processingFiles
              /\ analysisStatus' = st.analysisStatus
              /\ calls' = st.calls
              /\ timers' = st.timers
    /\ UNCHANGED <<apiKey, runs, activeRequests, analysisCache, errorMessages, delivered>>
    /\ UNCHANGED <<gvars, dvars, cvars, sLast, kvars, avars, wvars, evars>>

\* lines 91-94: the callback of the timeout that is due first
DropTimeout ==
    /\ timers # <<>>
    /\ timers' = Tail(timers)
    /\ processingFiles' = SelectSeq(processingFiles, LAMBDA name : name # Head(timers))
    /\ analysisStatus' = [analysisStatus EXCEPT ![Head(timers)] = "completed"]
    /\ UNCHANGED <<uploadedFiles, apiKey, calls, runs, activeRequests, analysisCache,
                   errorMessages, delivered>>
    /\ UNCHANGED <<gvars, dvars, cvars, sLast, kvars, avars, wvars, evars>>

NextDrop ==
    \/ OnDrop
    \/ DropTimeout
    \/ UploadHashed
    \/ UploadAfterCache
    \/ UploadParsed
    \/ CallHashed
    \/ RunConnReply
    \/ RunStage1Reply
    \/ RunStage2Reply
    \/ CallSettled

SpecDrop == InitDrop /\ [][NextDrop]_vars

\* the calls of processExcelFile made for a file of the list
RoutedCalls(file) == { c \in 1..Len(calls) : calls[c].file = file }

\* C18: on drop every spreadsheet file and every CSV file goes through the
\* ingestion pipeline (hash, cache check, parse, analyze), while a PDF or an
\* image file is only listed and ends up completed without a parse or an
\* analysis call
C18_SheetsAndCsvAreIngested ==
    \A i \in 1..Len(uploadedFiles) :
        LET file == uploadedFiles[i]
        IN  /\ file.kind \in {"spreadsheet", "csv"} => RoutedCalls(file) # {}
            /\ file.kind \in {"pdf", "image"} =>
                  /\ RoutedCalls(file) = {}
                  /\ (\A k \in 1..Len(timers) : timers[k] # file.name) =>
                        analysisStatus[file.name] = "completed"

-----------------------------------------------------------------------------
(* SpecRelay: src/server.js, the webhook relay.  A JSON object is a        *)
(* function from its keys to their values; the server's clock reads the    *)
(* number of the request it is serving.                                    *)

MaxRequests == 4

RelayClients == { "colleague", "frontend" }

\* req.body of POST /api/webhook after express.json(): the object sent, an
\* empty object when nothing was sent; one body brings its own timestamp
WebhookBodies ==
    { <<>>,
      [vendors |-> "Microsoft"],
      [vendors |-> "AWS", timestamp |-> 0] }

\* the number of requests served, the number of those that were POSTs
ServedCount == IF wLast = <<>> THEN 0 ELSE wLast[1].n
PostCount == IF wLast = <<>> THEN 0 ELSE wLast[1].posts

\* a relay whose slot is written once: a later POST leaves it as it is
WebhookDataFirstKept(slot, body, now) ==
    IF slot # <<>> THEN slot
    ELSE << [k \in DOMAIN body \cup {"timestamp"} |->
                IF k = "timestamp" THEN now ELSE body[k]] >>

\* lines 196-199: { ...req.body, timestamp: new Date().toISOString() }
WebhookData(slot, body, now) ==
    << [k \in DOMAIN body \cup {"timestamp"} |->
           IF k = "timestamp" THEN now ELSE body[k]] >>

\* lines 228-256: testData
TestData(now) ==
    [vendors |-> "Microsoft, Salesforce, AWS",
     source |-> "zapier_webhook",
     processed_at |-> now]

NoBody == <<>>

Served(method, path, client, body, posts, status, answer) ==
    << [n |-> ServedCount + 1, posts |-> posts, method |-> method, path |-> path,
        client |-> client, body |-> body, status |-> status, answer |-> answer] >>

InitRelay ==
    /\ RelayIdle
    /\ DecimalsIdle
    /\ BaseIdle
    /\ CsvIdle
    /\ StoresIdle
    /\ ConvIdle
    /\ AppIdle
    /\ DropIdle

RelayFrame ==
    UNCHANGED <<gvars, dvars, runs, mvars, cvars, sLast, kvars, avars, ovars, evars>>

\* lines 192-209: POST /api/webhook
PostWebhook ==
    /\ ServedCount < MaxRequests
    /\ \E client \in RelayClients, body \in WebhookBodies :
          /\ latestWebhookData' = WebhookData(latestWebhookData, body, ServedCount + 1)
          /\ wLast' = Served("POST", "/api/webhook", client, body, PostCount + 1, 200,
                             [success |-> TRUE, dataReceived |-> DOMAIN body,
                              timestamp |-> ServedCount + 1])
    /\ RelayFrame

\* lines 212-224: GET /api/webhook-data
GetWebhookData ==
    /\ ServedCount < MaxRequests
    /\ \E client \in RelayClients :
          wLast' = IF latestWebhookData = <<>>
                   THEN Served("GET", "/api/webhook-data", client, NoBody, PostCount, 404,
                               [error |-> "No webhook data available"])
                   ELSE Served("GET", "/api/webhook-data", client, NoBody, PostCount, 200,
                               latestWebhookData[1])
    /\ UNCHANGED latestWebhookData
    /\ RelayFrame

\* lines 227-263: POST /api/test-webhook
PostTestWebhook ==
    /\ ServedCount < MaxRequests
    /\ \E client \in RelayClients :
          /\ latestWebhookData' = << TestData(ServedCount + 1) >>
          /\ wLast' = Served("POST", "/api/test-webhook", client, NoBody, PostCount + 1, 200,
                             [success |-> TRUE, data |-> TestData(ServedCount + 1)])
    /\ RelayFrame

\* lines 266-277: GET /api/status
GetStatus ==
    /\ ServedCount < MaxRequests
    /\ \E client \in RelayClients :
          wLast' = Served("GET", "/api/status", client, NoBody, PostCount, 200,
                          [server |-> "running",
                           hasWebhookData |-> latestWebhookData # <<>>,
                           lastUpdate |->
                               IF latestWebhookData # <<>>
                                  /\ "timestamp" \in DOMAIN latestWebhookData[1]
                               THEN << latestWebhookData[1]["timestamp"] >>
                               ELSE <<>>])
    /\ UNCHANGED latestWebhookData
    /\ RelayFrame

NextRelay ==
    \/ PostWebhook
    \/ GetWebhookData
    \/ PostTestWebhook
    \/ GetStatus

SpecRelay == InitRelay /\ [][NextRelay]_vars

\* the request just served
LastIs(method, path) ==
    /\ wLast # <<>>
    /\ wLast[1].method = method
    /\ wLast[1].path = path

\* C20: the relay keeps one slot for all clients: GET /api/webhook-data
\* answers 404 exactly when no POST /api/webhook and no POST
\* /api/test-webhook has been served since the start, and otherwise returns
\* the payload stored by the most recent of those POSTs, whichever client
\* sent it: the slot is empty exactly until the first POST, each POST stores
\* its payload, and a GET answers with the slot and leaves it as it is
C20_SingleSlotLastWriteWins ==
    /\ [](latestWebhookData = <<>> <=> PostCount = 0)
    /\ [][ /\ LastIs("POST", "/api/webhook")' =>
                /\ Len(latestWebhookData') = 1
                /\ DOMAIN latestWebhookData'[1] = DOMAIN wLast'[1].body \cup {"timestamp"}
                /\ latestWebhookData'[1]["timestamp"] = wLast'[1].n
                /\ \A k \in DOMAIN wLast'[1].body \ {"timestamp"} :
                       latestWebhookData'[1][k] = wLast'[1].body[k]
           /\ LastIs("POST", "/api/test-webhook")' =>
                latestWebhookData' = << [vendors |-> "Microsoft, Salesforce, AWS",
                                         source |-> "zapier_webhook",
                                         processed_at |-> wLast'[1].n] >>
           /\ LastIs("GET", "/api/webhook-data")' =>
                /\ latestWebhookData' = latestWebhookData
                /\ wLast'[1].status = 404 <=> PostCount = 0
                /\ wLast'[1].status # 404 =>
                      /\ wLast'[1].status = 200
                      /\ wLast'[1].answer = latestWebhookData[1]
           /\ LastIs("GET", "/api/status")' => latestWebhookData' = latestWebhookData ]_vars

\* a client has fetched the data after two POSTs of other clients, and was
\* answered with the payload of the second
C20_Witness ==
    /\ LastIs("GET", "/api/webhook-data")
    /\ wLast[1].client = "frontend"
    /\ wLast[1].posts = 2
    /\ wLast[1].n = 3
    /\ wLast[1].status = 200
    /\ wLast[1].answer = [vendors |-> "AWS", timestamp |-> 2]

\* the server time at which the object in the slot was stored: the webhook
\* stamps it as timestamp, the test endpoint as processed_at
StoreTime ==
    IF "timestamp" \in DOMAIN latestWebhookData[1]
    THEN latestWebhookData[1]["timestamp"]
    ELSE latestWebhookData[1]["processed_at"]

\* C21: GET /api/status reports the last-update time of the slot: while an
\* object is stored, lastUpdate is the server time of the most recent
\* store, whichever endpoint stored it, and lastUpdate is null only while
\* nothing is stored
C21_StatusReportsLastStore ==
    LastIs("GET", "/api/status") =>
        /\ wLast[1].answer.hasWebhookData = (latestWebhookData # <<>>)
        /\ latestWebhookData # <<>> => wLast[1].answer.lastUpdate = << StoreTime >>
        /\ latestWebhookData = <<>> => wLast[1].answer.lastUpdate = <<>>

-----------------------------------------------------------------------------
(* Claims about the payload of performAnalysis (SpecDemo)                  *)

\* the step in which performAnalysis prepares and sends the stage-1 payload
PromptSent ==
    /\ runs # <<>>
    /\ runs[1].pc = "conn"
    /\ runs' # <<>>
    /\ runs'[1].pc = "stage1"

-----------------------------------------------------------------------------
(* SpecDecimals: src/src/services/openai.ts, convertEuropeanDecimals, the  *)
(* conversion parseCsvFile applies to every trimmed cell text.             *)

MaxValueLen == 6

DecimalChars == { "0", "1", "4", "5", ",", "x" }

\* the cell texts: every string of at most MaxValueLen of these characters
CellTexts == UNION { [1..n -> DecimalChars] : n \in 0..MaxValueLen }

\* a pattern that takes any number of digits after the comma: /^\d+,\d+$/
EuropeanNumberPatternAnyFraction(value) ==
    LET whole == LeadingDigits(value)
        rest == SubSeq(value, Len(whole) + 1, Len(value))
    IN  /\ Len(whole) >= 1
        /\ rest # <<>>
        /\ Head(rest) = ","
        /\ Len(Tail(rest)) >= 1
        /\ AllDigits(Tail(rest))

\* line 329: /^\d+,\d{2,3}$/.test(value): the leading run of digits, a
\* comma, then digits only, two or three of them, up to the end
EuropeanNumberPattern(value) ==
    LET whole == LeadingDigits(value)
        rest == SubSeq(value, Len(whole) + 1, Len(value))
    IN  /\ Len(whole) >= 1
        /\ rest # <<>>
        /\ Head(rest) = ","
        /\ Len(Tail(rest)) \in 2..3
        /\ AllDigits(Tail(rest))

\* lines 324-337
convertEuropeanDecimals(value) ==
    IF value = <<>> THEN value
    ELSE IF EuropeanNumberPattern(value) THEN ReplaceFirstComma(value)
    ELSE value

InitDecimals ==
    /\ eValue \in CellTexts
    /\ eCalls = 0
    /\ eResult = <<>>
    /\ BaseIdle
    /\ CsvIdle
    /\ StoresIdle
    /\ ConvIdle
    /\ AppIdle
    /\ DropIdle
    /\ RelayIdle

\* line 282 of parseCsvFile: row[header] = convertEuropeanDecimals(value)
ConvertCell ==
    /\ eCalls = 0
    /\ eResult' = convertEuropeanDecimals(eValue)
    /\ eCalls' = 1
    /\ UNCHANGED <<eValue, gvars, dvars, runs, mvars, cvars, sLast, kvars, avars, ovars,
                   wvars>>

NextDecimals == ConvertCell

SpecDecimals == InitDecimals /\ [][NextDecimals]_vars

\* the places of value at which a comma stands between one or more digits
\* before it, from the start, and two or three digits after it, to the end
DecimalCommas(value) ==
    { k \in 2..Len(value) :
        /\ value[k] = ","
        /\ \A i \in 1..Len(value) : i # k => value[i] \in { Digits[d] : d \in 1..10 }
        /\ Len(value) - k \in { 2, 3 } }

\* C23: convertEuropeanDecimals replaces the comma by a dot exactly for the
\* texts made of one or more digits, a comma, then 2 or 3 digits, returns
\* every other text as it is, and applied to its own result returns that
\* result
C23_CommaToDotForDecimalsOnly ==
    eCalls = 1 =>
        /\ DecimalCommas(eValue) # {} =>
              /\ Len(eResult) = Len(eValue)
              /\ \A i \in 1..Len(eValue) :
                    eResult[i] = IF i \in DecimalCommas(eValue) THEN "." ELSE eValue[i]
        /\ DecimalCommas(eValue) = {} => eResult = eValue
        /\ convertEuropeanDecimals(eResult) = eResult

\* the text "0,514" was converted to "0.514"
C23_Witness ==
    /\ eCalls = 1
    /\ eValue = << "0", ",", "5", "1", "4" >>
    /\ eResult = << "0", ".", "5", "1", "4" >>

-----------------------------------------------------------------------------
(* Claims about the mapping of the stage-2 body (SpecDemo)                 *)

\* the locations of the payload array, in the order of their priority
PayloadLocations == << "items", "analysis", "self", "data", "vendors", "result" >>

HoldsArray(body, location) ==
    IF location = "self" THEN body.kind = "array"
    ELSE /\ body.kind = "object"
         /\ location \in DOMAIN body.f
         /\ body.f[location].kind = "array"

ArrayHeldAt(body, location) ==
    IF location = "self" THEN body.arr ELSE body.f[location].arr

\* the places in PayloadLocations of the locations of body that hold an array
HoldingPlaces(body) ==
    { p \in 1..Len(PayloadLocations) : HoldsArray(body, PayloadLocations[p]) }

FirstHoldingPlace(body) ==
    CHOOSE p \in HoldingPlaces(body) : \A q \in HoldingPlaces(body) : p <= q

\* processWithNormalAPIs is over and its stage-2 request was answered with a
\* body that could be read
Stage2BodyMapped ==
    /\ dPipeline = "n8n"
    /\ dPc = "done"
    /\ Len(dReplies) = 2
    /\ StepApiError(dReplies[2].reply) = NoError

\* C24: mapToSpendAnalysis maps the array held by the first of the
\* locations items, analysis, the body itself, data, vendors, result that
\* holds an array, one item per element; when no location holds an array,
\* or the first that does holds an empty one, processWithNormalAPIs takes
\* the remote analysis as failed and resolves with the fallback
C24_FirstArrayLocationIsMapped ==
    Stage2BodyMapped =>
        LET body == dReplies[2].reply.body IN
        IF HoldingPlaces(body) = {}
        THEN dPath = "fallback" /\ dError = Err("Error", 0)
        ELSE LET payload == ArrayHeldAt(body, PayloadLocations[FirstHoldingPlace(body)]) IN
             IF payload = <<>>
             THEN dPath = "fallback" /\ dError = Err("Error", 0)
             ELSE /\ dPath = "remote"
                  /\ Len(dOut.analysis) = Len(payload)
                  /\ \A i \in 1..Len(payload) : dOut.analysis[i] = MapItem(payload[i], i)

\* a body with arrays under analysis and under data was mapped from the
\* array under analysis
C24_Witness ==
    /\ Stage2BodyMapped
    /\ dReplies[2].reply.body = JObject([analysis |-> Payload1, data |-> Payload2])
    /\ dPath = "remote"
    /\ Len(dOut.analysis) = 1

-----------------------------------------------------------------------------
(* Claims about the in-flight map after a run (Spec)                       *)

\* C25: once a call of analyzeExcelData that started a run has settled, by
\* success or by failure, that run is no longer in the in-flight map; a call
\* with the same input made after it settled gets another, later run and
\* not the old promise; and whenever no call of analyzeExcelData is pending
\* the in-flight map is empty
C25_SettledRunIsRemoved ==
    /\ \A c \in CallIds :
          (calls[c].owner /\ calls[c].pc = "done") =>
              \A e \in activeRequests : e.run # calls[c].run
    /\ \A a, b \in CallIds :
          (a \in calls[b].afterSettled /\ SameInput(a, b)
              /\ calls[a].run # 0 /\ calls[b].run # 0) =>
              /\ calls[b].run > calls[a].run
              /\ runs[calls[a].run].pc = "done"
    /\ Unsettled = {} => activeRequests = {}

\* a call was rejected by its run; a second call with the same input, made
\* after that, has started a run of its own, which is the one in the map
C25_Witness ==
    /\ Len(calls) = 2
    /\ calls[1].pc = "done"
    /\ calls[1].outcome = "rejected"
    /\ calls[1].run = 1
    /\ 1 \in calls[2].afterSettled
    /\ SameInput(1, 2)
    /\ calls[2].owner
    /\ calls[2].run = 2
    /\ calls[2].pc = "await"
    /\ activeRequests = { [hash |-> calls[2].dataHash, run |-> 2] }

-----------------------------------------------------------------------------
(* Claims about the current-file pointer (SpecConv)                        *)

\* the ids of the stored records
StoredIds == { conversations[i].key : i \in 1..Len(conversations) }

\* C26: in every reachable state of the manager the current-file pointer is
\* null or the id of a stored record, after any sequence of storeAnalysis,
\* setCurrentFile, addChatMessage and clear; setCurrentFile with an id that
\* is not stored returns false and leaves the pointer as it was
C26_PointerNamesStoredRecord ==
    /\ [](currentFileId = NoFileId \/ currentFileId \in StoredIds)
    /\ [][ (kLast' # <<>> /\ kLast'[1].op = "setCurrentFile") =>
           IF kLast'[1].fileId \in StoredIds
           THEN kLast'[1].returned = TRUE /\ currentFileId' = kLast'[1].fileId
           ELSE kLast'[1].returned = FALSE /\ currentFileId' = currentFileId ]_vars

\* setCurrentFile was called with an id that is not stored while another
\* file is current: it returned false and that file is still current
C26_Witness ==
    /\ kLast # <<>>
    /\ kLast[1].op = "setCurrentFile"
    /\ kLast[1].fileId = "democompany_2_b"
    /\ kLast[1].returned = FALSE
    /\ StoredIds = { "democompany_1_a" }
    /\ currentFileId = "democompany_1_a"

-----------------------------------------------------------------------------
(* Claims about failed uploads (Spec)                                      *)

\* call c is an upload that is over without an analysis: its hashing, its
\* parsing or its analysis failed, or the key was missing
FailedUpload(c) ==
    /\ calls[c].kind = "upload"
    /\ calls[c].pc = "done"
    /\ ~calls[c].cached.hit
    /\ calls[c].outcome # "resolved"

\* C27: processExcelFile writes to the analysis cache only after its
\* analyzeExcelData has resolved, and then under the hash of the file's
\* bytes; an upload whose hashing, parsing or analysis fails ends with the
\* file's status set to error and its name out of the processing list and
\* adds no cache entry; so an upload served from the cache is served an
\* analysis that was in the cache at the start or that an upload of the
\* same bytes resolved with, never a failure
C27_FailedUploadCachesNothing ==
    /\ [][ /\ analysisCache' # analysisCache =>
                \E c \in CallIds :
                    /\ calls[c].kind = "upload"
                    /\ calls[c].pc = "await"
                    /\ calls'[c].pc = "done"
                    /\ calls'[c].outcome = "resolved"
                    /\ runs[calls[c].run].outcome = "resolved"
                    /\ \E i \in 1..Len(analysisCache') :
                          analysisCache'[i] = [key |-> [sha256 |-> calls[c].file.bytes],
                                               value |-> calls'[c].result]
           /\ \A c \in CallIds :
                (calls[c].pc # "done" /\ FailedUpload(c)') =>
                    /\ analysisStatus'[calls[c].file.name] = "error"
                    /\ \A i \in 1..Len(processingFiles') :
                          processingFiles'[i] # calls[c].file.name
                    /\ analysisCache' = analysisCache ]_vars
    /\ [](\A c \in CallIds :
             (calls[c].kind = "upload" /\ calls[c].cached.hit) =>
                 \/ \E k \in 1..Len(FullCache) :
                       /\ FullCache[k].key = calls[c].fileHash
                       /\ calls[c].cached.value = FullCache[k].value
                 \/ \E o \in CallIds \ {c} :
                       /\ calls[o].kind = "upload"
                       /\ calls[o].pc = "done"
                       /\ calls[o].outcome = "resolved"
                       /\ calls[o].file.bytes = calls[c].file.bytes
                       /\ calls[c].cached.value = calls[o].result)

\* the analysis of an uploaded file was rejected; the same bytes were
\* uploaded again, found nothing in the cache and are analysed by a run of
\* their own
C27_Witness ==
    /\ Len(calls) = 2
    /\ FailedUpload(1)
    /\ calls[1].outcome = "rejected"
    /\ analysisStatus[calls[1].file.name] = "processing"
    /\ calls[2].kind = "upload"
    /\ calls[2].file = calls[1].file
    /\ 1 \in calls[2].afterSettled
    /\ calls[2].fileHash = calls[1].fileHash
    /\ ~calls[2].cached.hit
    /\ calls[2].pc = "await"
    /\ calls[2].run = 2
    /\ analysisCache = <<>>

-----------------------------------------------------------------------------
(* Claims about the caller's rows (SpecDemo)                               *)

\* C28: the analysis leaves the caller's row array as it is: at every step
\* of a performAnalysis call the order and the content of the rows the
\* caller passed are those of before the step, on the path of the grouped
\* rows and on the path of the table alike
C28_CallerRowsUnchanged ==
    [][ dPipeline = "openai" => dData' = dData ]_vars

-----------------------------------------------------------------------------
(* SpecChat: the chat of one session of the App, with sends that overlap:  *)
(* a message is sent while the answers to earlier ones are outstanding.    *)

MaxOverlappingSends == 2

\* handleSendMessage, called again before the earlier calls are over
HandleSendMessageAgain == SendMessage(MaxOverlappingSends)

NextChat ==
    \/ HandleLogin
    \/ HandleAnalysisComplete
    \/ HandleSendMessageAgain
    \/ ChatServed
    \/ ChatNotServed

SpecChat == InitApp /\ [][NextChat]_vars

\* the sends whose fetch is answered in this step
Answered == { s \in 1..Len(aSends) : aSends[s].pc = "fetch" /\ aSends'[s].pc = "done" }

\* the turn that this send adds to the history of its file
TurnOf(s) ==
    << [id |-> MessageId(s, "user"), role |-> "user",
        content |-> aSends[s].message],
       [id |-> MessageId(s, "assistant"), role |-> "assistant",
        content |-> IF aSends'[s].response.kind = "response"
                       /\ aSends'[s].response.json /\ aSends'[s].response.success
                    THEN aSends'[s].response.message
                    ELSE Apology] >>

\* a history of adjacent pairs: a user message, then the assistant message
\* of the same send
Paired(history) ==
    /\ Len(history) % 2 = 0
    /\ \A k \in 1..(Len(history) \div 2) :
          /\ history[2 * k - 1].role = "user"
          /\ history[2 * k].role = "assistant"
          /\ history[2 * k].id = MessageId(history[2 * k - 1].id[2], "assistant")

\* C29: every answered send on a current file appends exactly two messages
\* to the history of that file, the user's message immediately followed by
\* its own reply (the answer of the endpoint or the apology), also when
\* sends overlap; no other step of the chat changes a stored history, so in
\* every interleaving each history is a sequence of adjacent user/assistant
\* pairs
C29_SendAppendsItsOwnPair ==
    /\ [](\A i \in 1..Len(conversations) :
              Paired(conversations[i].value.conversationHistory))
    /\ [][ \A f \in StoredIds :
              getConversationHistory(conversations', f) =
                  IF \E s \in Answered : aSends[s].fileId = f
                  THEN getConversationHistory(conversations, f)
                           \o TurnOf(CHOOSE s \in Answered : aSends[s].fileId = f)
                  ELSE getConversationHistory(conversations, f) ]_vars

\* two sends overlapped and the later one was answered first: the history
\* of the file has the later turn before the earlier one
C29_Witness ==
    /\ Len(aSends) = 2
    /\ aSends[1].pc = "done" /\ aSends[2].pc = "done"
    /\ aSends[1].fileId = aSends[2].fileId
    /\ aSends[1].response.success /\ ~aSends[2].response.success
    /\ LET history == getConversationHistory(conversations, aSends[1].fileId)
       IN  /\ Len(history) = 4
           /\ history[1].id = MessageId(2, "user")
           /\ history[2].content = Apology
           /\ history[3].id = MessageId(1, "user")
           /\ history[4].id = MessageId(1, "assistant")

-----------------------------------------------------------------------------
(* Claims about the savings range of a mapped item (SpecDemo)              *)

\* the items that mapToSpendAnalysis produced from a stage-2 body, with a
\* numeric spend
MappedItems ==
    IF Stage2BodyMapped /\ dPath = "remote"
    THEN { dOut.analysis[i] : i \in { j \in 1..Len(dOut.analysis) : ~dOut.analysis[j].pastSpend.nan } }
    ELSE {}

\* C30: for every item that mapToSpendAnalysis produces the lower bound of
\* the savings range is at most its upper bound, also when the lower bound
\* is pastSpend minus the cheapest alternative price and the upper bound is
\* 20% of pastSpend
C30_SavingsRangeOrdered ==
    \A item \in MappedItems : item.savingsRange.min.n <= item.savingsRange.max.n

====
